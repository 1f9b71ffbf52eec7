---------------------------- MODULE LinkCheckRun ----------------------------
(***************************************************************************)
(* What a client that polls its link checks is promised                    *)
(* (GET /checks/{id}): a check is accepted, its members are resolved one   *)
(* by one, none of them ever returns to "pending", and the check is        *)
(* complete only when none is left.  A completed check stays complete      *)
(* until it is purged.                                                     *)
(*                                                                         *)
(* A transaction of the service may advance several checks at once, since  *)
(* checks share the rows of their URLs; hence one step moves every check,  *)
(* most of them by nothing.                                                *)
(***************************************************************************)
CONSTANTS Checks, Urls

VARIABLES
    run,        \* the phase of each check
    unresolved  \* the members each check still reports as pending

promise == <<run, unresolved>>

Phases == {"absent", "pending", "complete", "purged"}

Init ==
    /\ run = [c \in Checks |-> "absent"]
    /\ unresolved = [c \in Checks |-> {}]

Unchanged(c) ==
    /\ run'[c] = run[c]
    /\ unresolved'[c] = unresolved[c]

Accept(c) ==
    /\ run[c] = "absent"
    /\ run'[c] \in {"pending", "complete"}
    /\ run'[c] = "complete" => unresolved'[c] = {}

Resolve(c) ==
    /\ run[c] = "pending"
    /\ run'[c] \in {"pending", "complete"}
    /\ unresolved'[c] \subseteq unresolved[c]
    /\ run'[c] = "complete" => unresolved'[c] = {}

Purge(c) ==
    /\ run[c] \in {"pending", "complete"}
    /\ run'[c] = "purged"
    /\ unresolved'[c] = {}

Next ==
    /\ run' \in [Checks -> Phases]
    /\ unresolved' \in [Checks -> SUBSET Urls]
    /\ \A c \in Checks : Unchanged(c) \/ Accept(c) \/ Resolve(c) \/ Purge(c)

Spec == Init /\ [][Next]_promise
=============================================================================
