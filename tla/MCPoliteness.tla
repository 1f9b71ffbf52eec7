---------------------------- MODULE MCPoliteness ----------------------------
(* The checker, watched: how long ago each host was sent a request.        *)
EXTENDS UrlChecker

VARIABLE elapsed  \* time since a host's last request, up to HostInterval

Sent(h) == \E k \in Tasks : Sends(k) /\ task[k].host = h

Watched ==
    elapsed' = [h \in Hosts |->
        IF Sent(h) THEN 0
        ELSE IF Tick THEN Smaller(elapsed[h] + 1, HostInterval)
        ELSE elapsed[h]]

WatchedSpec ==
    /\ Init /\ elapsed = [h \in Hosts |-> HostInterval]
    /\ [][Next /\ Watched]_<<vars, elapsed>>

(* "Minimum politeness interval between requests to the same host" (the    *)
(* host_interval parameter of UrlChecker, spent in _wait_for_host_slot     *)
(* before the semaphore is acquired in _send).                             *)
PoliteToHosts ==
    [][ \A h \in Hosts : Sent(h) => elapsed[h] = HostInterval ]_<<vars, elapsed>>
=============================================================================
