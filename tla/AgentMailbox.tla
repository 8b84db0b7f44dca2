------------------------------ MODULE AgentMailbox ------------------------------
(* What an Agent Session promises about the messages handed to it, without the
   log, the lanes, the turns or the driver.  A message is accepted once; it is
   either free to be consumed ("queued") or waits for an explicit word of the
   user ("held"); it is then consumed by the model exactly once ("delivered") or
   given up ("dropped"), and both are final.  A restart never leaves a message
   free: whatever a crash found queued is held before the store serves again. *)

CONSTANT Msgs

VARIABLES box,  \* what has become of each message
          up    \* the store serves: it has loaded and held the restored input

vars == <<box, up>>

Fates == {"absent", "queued", "held", "delivered", "dropped"}

TypeOK == box \in [Msgs -> Fates] /\ up \in BOOLEAN

Having(fates) == {m \in Msgs : box[m] \in fates}

\* box after every message of S met this fate.
Become(S, fate) == [m \in Msgs |-> IF m \in S THEN fate ELSE box[m]]

Init == box = [m \in Msgs |-> "absent"] /\ up = TRUE

Accept(m) == /\ up /\ box[m] = "absent"
             /\ \E fate \in {"queued", "held"} : box' = Become({m}, fate)
             /\ UNCHANGED up

Hold(S) == /\ S \subseteq Having({"queued", "held"})
           /\ box' = Become(S, "held") /\ UNCHANGED up

Release(m) == /\ up /\ box[m] = "held"
              /\ box' = Become({m}, "queued") /\ UNCHANGED up

Deliver(S) == /\ up /\ S \subseteq Having({"queued"})
              /\ box' = Become(S, "delivered") /\ UNCHANGED up

Drop(S) == /\ up /\ S \subseteq Having({"queued", "held"})
           /\ box' = Become(S, "dropped") /\ UNCHANGED up

Crash == up /\ up' = FALSE /\ UNCHANGED box

Reopen == /\ ~up /\ Having({"queued"}) = {}
          /\ up' = TRUE /\ UNCHANGED box

Next == \/ \E m \in Msgs : Accept(m) \/ Release(m)
        \/ \E S \in SUBSET Msgs : Hold(S) \/ Deliver(S) \/ Drop(S)
        \/ Crash \/ Reopen

Spec == Init /\ [][Next]_vars
================================================================================
