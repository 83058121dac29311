-------------------------- MODULE MCOplogCollector --------------------------
(* OplogCollector, for TLC. *)
EXTENDS OplogCollector, TLC

\* A chain that was followed by another one never changes again, and neither do its
\* chunks: what the rest of a behaviour depends on is the last chain.
Current ==
    IF state.chain = 0 THEN <<>>
    ELSE <<chains[state.chain], {[k EXCEPT !.chain = 0] : k \in ChunksOf(state.chain)}, state.last, state.set>>
Reachable == {h \in lost : \E e \in h : e.set = rs.set}
\* A base whose consistent point was lost never gets it back.
Useful == IF base.stage = "completed" /\ base.after \notin Committed THEN NoBase.after ELSE base
\* To a base that is yet to be completed earlier chains matter, where they reach as far
\* as its consistent point may: what is committed now, unless it may still be lost.
BaseAhead == base.stage \in {"dumping", "dumped"} \/ (base.stage = "none" /\ events < MaxEvents)
MayLose == lost = {} /\ events + (IF base.stage = "none" THEN 1 ELSE 0) < MaxEvents
Reaching(c) == MayLose \/ \E k \in Live(c) : k.last.ts >= rs.commit
Earlier ==
    IF BaseAhead
    THEN {{[k EXCEPT !.chain = 0] : k \in Live(c)} :
            c \in {d \in 1..Len(chains) : d # state.chain /\ Reaching(d) /\ \E k \in Live(d) : k.last.set = rs.set}}
    ELSE {}
Relevant == <<rs, Reachable, Current, Useful, Earlier, CoveredBaseOnChain, control, w, events>>
=============================================================================
