------------------------- MODULE GenerationLifecycle -------------------------
(***************************************************************************)
(* What one curation generation promises, whatever file it is kept in: one *)
(* checkpoint transaction at a time, a verdict only about a reviewed       *)
(* checkpoint, authority that a later checkpoint or verdict withdraws, and *)
(* a new generation only after the last one was closed.                    *)
(***************************************************************************)
CONSTANTS Heads, NoHead

VARIABLE doc \* [stage, discovery, head, open]

Live == {"prepared", "discovery", "delta", "reviewed", "validation-failed",
         "fully-validated"}
Over == {"superseded", "invalidated", "consumed"}
Outcomes == {"partial", "complete", "unavailable"}

NoTransaction == [kind |-> "none", head |-> NoHead, discovery |-> "none"]
Nothing == [stage |-> "absent", discovery |-> "none", head |-> NoHead,
            open |-> NoTransaction]

Prepared(h) == [Nothing EXCEPT !.stage = "prepared", !.head = h]

\* The steps from d to e.
Prepare(d, e) == /\ d.stage \in Over \cup {"absent"}
                 /\ \E h \in Heads : e = Prepared(h)

Start(d, e) == /\ d.stage \in Live \ {"fully-validated"}
               /\ d.open = NoTransaction
               /\ e.open.head \in Heads
               /\ \/ e.open.kind = "discovery" /\ e.open.discovery \in Outcomes
                  \/ e.open.kind \in {"delta", "reviewed"} /\ e.open.discovery = "none"
               /\ e = [d EXCEPT !.open = e.open]

Complete(d, e) == /\ d.open # NoTransaction
                  /\ e = [d EXCEPT !.stage = d.open.kind,
                                   !.head = d.open.head,
                                   !.discovery = IF d.open.kind = "discovery"
                                                   THEN d.open.discovery ELSE @,
                                   !.open = NoTransaction]

Verdict(d, e) == /\ d.stage = "reviewed"
                 /\ d.open = NoTransaction
                 /\ e.stage \in {"validation-failed", "fully-validated"}
                 /\ e = [d EXCEPT !.stage = e.stage]

Close(d, e) == /\ d.stage \in Live
               /\ e.stage \in Over
               /\ e = [d EXCEPT !.stage = e.stage, !.open = NoTransaction]

Step(d, e) == \/ Prepare(d, e) \/ Start(d, e) \/ Complete(d, e)
              \/ Verdict(d, e) \/ Close(d, e)

Lifecycle == doc = Nothing /\ [][Step(doc, doc')]_doc
=============================================================================
