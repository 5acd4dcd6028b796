---------------------------- MODULE DurableStore ----------------------------
(***************************************************************************)
(* What the object store promises its callers: each id has a current value *)
(* that updates accumulate in at once, and a durable value that trails it. *)
(* The durable value is only ever replaced, as a whole, by the current     *)
(* one, and a restart of the server goes back to it.  An id that is erased *)
(* loses both, and no other id notices.                                    *)
(***************************************************************************)
CONSTANTS Ids, Updates

VARIABLES current, durable

dvars == <<current, durable>>

Update(i, u) ==
    /\ current' = [current EXCEPT ![i] = @ \cup {u}]
    /\ UNCHANGED durable

Persist(i) ==
    /\ durable' = [durable EXCEPT ![i] = current[i]]
    /\ UNCHANGED current

Erase(i) ==
    /\ current' = [current EXCEPT ![i] = {}]
    /\ durable' = [durable EXCEPT ![i] = {}]

Restart ==
    /\ current' = durable
    /\ UNCHANGED durable

Init ==
    /\ current = [i \in Ids |-> {}]
    /\ durable = [i \in Ids |-> {}]

Next ==
    \/ \E i \in Ids, u \in Updates : Update(i, u)
    \/ \E i \in Ids : Persist(i) \/ Erase(i)
    \/ Restart

Spec == Init /\ [][Next]_dvars
=============================================================================
