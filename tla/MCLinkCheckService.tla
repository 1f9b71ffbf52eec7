------------------------- MODULE MCLinkCheckService -------------------------
(* A short ladder on a short clock, and the answers that lead to each kind *)
(* of state.                                                               *)
EXTENDS LinkCheckService, TLC

MCRecheckIntervals == <<1>>

Saw(result, code, bot) ==
    [result |-> result, status_code |-> code, is_bot_blocked |-> bot]

Found     == Saw("success", 200, FALSE)
NoAnswer  == Saw("failure", NoCode, FALSE)
BotWall   == Saw("failure", 403, TRUE)
Private   == Saw("unsupported", NoCode, FALSE)

UpOrDown   == {Found, NoAnswer}
FewAnswers == {Found, NoAnswer, Private}
AllAnswers == {Found, NoAnswer, BotWall, Private}

(* A build of the default version and one of a branch; and a build of a    *)
(* default version that no longer has any link.                            *)
Builds == { [urls |-> Urls, isDefault |-> d] : d \in BOOLEAN }
EmptyBuild == [urls |-> {}, isDefault |-> TRUE]
BuildsAndEmpty == Builds \cup {EmptyBuild}

(* Checks, and workers, are interchangeable in every safety property.      *)
Symmetry == Permutations(Checks) \cup Permutations(Workers)

(* One complication at a time: a fault, a contribution or a forced recheck, *)
(* or a second check that shares the URL.                                   *)
Started == {c \in Checks : check[c].status # "absent" \/ tx[c].phase # "idle"}
OneComplication ==
    faults + offSchedule + (IF Cardinality(Started) > 1 THEN 1 ELSE 0) <= 1
=============================================================================
