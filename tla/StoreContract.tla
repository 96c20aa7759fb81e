---------------------------- MODULE StoreContract ----------------------------
(***************************************************************************)
(* What the Store interface promises (store.go): between its call and its  *)
(* return a method takes effect at one instant or not at all, and answers  *)
(* the truth about it, except that a failing database may make             *)
(* ListCarriers leave carriers out, and that an error of Dispatch does not *)
(* say which it was.                                                       *)
(*                                                                         *)
(* This is MemStore, whose methods are one critical section each under one *)
(* mutex, with what only a database can do added: Fail, Break and Crash    *)
(* are off for MemStore itself (Faults = {}).  MemStore tests for a        *)
(* missing row where SQLite looks at the rows affected; the answer differs *)
(* only for a dispatch that Legal excludes.                                *)
(***************************************************************************)
EXTENDS StoreCalls

contractVars == << carriers, shipments, call >>

Init ==
    /\ StoreInit
    /\ call = [k \in Calls |-> IdleCall]

\* The critical section of a method.
Perform(k) ==
    /\ call[k].at = "called"
    /\ LET cmd == call[k].command IN
       \/ OneStatement(k)
       \/ /\ cmd.method = "Dispatch"
          /\ carriers[cmd.carrier] = "available"
          /\ Dispatch(cmd.shipment, cmd.carrier, cmd.price)
          /\ call' = [call EXCEPT ![k] = Answered(@, "ok")]
       \/ /\ cmd.method = "Dispatch"
          /\ carriers[cmd.carrier] # "available"
          /\ call' = [call EXCEPT ![k] = Answered(@, "unavailable")]
          /\ UNCHANGED storeVars

\* The database fails, and nothing is written.
Fail(k) ==
    /\ "store" \in Faults
    /\ call[k].at = "called"
    /\ Refuse(k) \/ ListCutShort(k)

\* The errors that come with the effect: of a dispatch whose Commit has gone
\* through unheard, or whose row cannot be read back.
Break(k) ==
    LET cmd == call[k].command IN
    /\ "store" \in Faults
    /\ cmd.method = "Dispatch"
    /\ \/ /\ call[k].at = "called"
          /\ carriers[cmd.carrier] = "available"
          /\ Dispatch(cmd.shipment, cmd.carrier, cmd.price)
       \/ /\ call[k].at = "done" /\ call[k].answer = "ok"
          /\ UNCHANGED storeVars
    /\ call' = [call EXCEPT ![k] = Answered(@, "error")]

\* The callers are gone, what has taken effect stays.
Crash ==
    /\ "crash" \in Faults
    /\ call' = [k \in Calls |-> IdleCall]
    /\ UNCHANGED storeVars

Next ==
    \/ \E k \in Calls, cmd \in Commands : Invoke(k, cmd)
    \/ \E k \in Calls : Perform(k) \/ Fail(k) \/ Break(k) \/ Return(k)
    \/ Crash

Spec == Init /\ [][Next]_contractVars

=============================================================================
