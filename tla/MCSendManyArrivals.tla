------------------------- MODULE MCSendManyArrivals -------------------------
(* SendMany with what no node keeps: the order in which its messages arrive. *)
EXTENDS MCSendMany

VARIABLE arrivals   \* arrivals[n]: the writes of the messages to n, as they first arrived

ArrivalInit == Init /\ arrivals = [n \in Node |-> <<>>]

(* The copy that a step delivers, if it delivers one, has arrived. *)
Note ==
    LET came == inFlight \ inFlight'
    IN  arrivals' = [n \in Node |->
            IF \E c \in came : c[1].to = n /\ c[1].value \notin Range(arrivals[n])
            THEN Append(arrivals[n], (CHOOSE c \in came : c[1].to = n)[1].value)
            ELSE arrivals[n]]

ArrivalNext == Next /\ Note

ArrivalSpec == ArrivalInit /\ [][ArrivalNext]_<<vars, arrivals>>
-----------------------------------------------------------------------------
(* NodeSingleLeader: what two messages brought a follower, it has applied in the order in *)
(* which they came ("Followers apply replication messages in the order they arrive",      *)
(* node_single_leader.py).  The code does not: on_message holds a message until all with  *)
(* smaller numbers have come.                                                             *)
AppliedInOrderOfArrival ==
    class = "NodeSingleLeader" =>
        \A n \in Node \ {LeaderId} :
            \A i, j \in DOMAIN Log(n) : \A a, b \in DOMAIN arrivals[n] :
                i < j /\ arrivals[n][a] = Log(n)[i] /\ arrivals[n][b] = Log(n)[j] => a < b
=============================================================================
