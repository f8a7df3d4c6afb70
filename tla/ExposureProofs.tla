---------------------------- MODULE ExposureProofs ----------------------------
(***************************************************************************)
(* The ways in which the exposure row can come to be wrong are the ones      *)
(* ExposureRow names, for any number of windows and any bounds.             *)
(***************************************************************************)
EXTENDS ExposureRow, TLAPS

Places == {"idle", "ingested", "changed", "read", "written"}
RowTypeOK == at \in [Writer -> Places] /\ seen = [w \in Writer |-> seen[w]]

\* A value read since the last change is the exposure, the row is if it was written
\* from one, and otherwise a writer that will put it right is still on its way.
FreshIsExposure == \A w \in fresh : w \in Writer /\ at[w] = "read" /\ seen[w] = Exposure
CurrentIsExposure == current => row = Exposure
Pending == \E w \in Writer : at[w] = "changed" \/ w \in fresh
RowInv == /\ RowTypeOK /\ FreshIsExposure /\ CurrentIsExposure
          /\ current \/ Pending \/ excuses # {}

\* Nothing but an inventory makes the exposure another one.
LEMMA SameExposure == inv' = inv => Exposure' = Exposure
BY DEF Exposure

LEMMA RowTypeInductive == RowTypeOK /\ [Next]_vars => RowTypeOK'
<1> SUFFICES ASSUME RowTypeOK, [Next]_vars PROVE RowTypeOK'
  OBVIOUS
<1> USE DEF RowTypeOK, Places, Goes, Writer
<1>1. ASSUME NEW m \in Window, Reap(m) \/ Settle(m) \/ \E q \in {-1, 1} : Book(m, q) \/ Ingest(m, q)
      PROVE  RowTypeOK'
  BY <1>1 DEF Reap, Settle, Book, Ingest, Changes
<1>2. CASE RecordFill \/ AddInventory \/ Restart
  BY <1>2 DEF RecordFill, AddInventory, Restart, Changes
<1>3. ASSUME NEW w \in Writer, ReadExposure(w) \/ WriteRow(w) \/ WriteFails(w)
      PROVE  RowTypeOK'
  BY <1>3 DEF ReadExposure, WriteRow, WriteFails, Done
<1>4. CASE UNCHANGED vars
  BY <1>4 DEF vars
<1> QED BY <1>1, <1>2, <1>3, <1>4 DEF Next

LEMMA RowInductive == RowInv /\ [Next]_vars => RowInv'
<1> SUFFICES ASSUME RowInv, [Next]_vars PROVE RowInv'
  OBVIOUS
<1>t. RowTypeOK /\ RowTypeOK'
  BY RowTypeInductive DEF RowInv
\* A change of an inventory leaves its writer on the way.
<1>c. ASSUME NEW w \in Writer, NEW m, NEW pos, Changes(w, m, pos)
      PROVE  RowInv'
  <2>1. fresh' = {} /\ current' = FALSE /\ at'[w] = "changed"
    BY <1>c, <1>t DEF Changes, Goes, RowTypeOK
  <2> QED BY <1>t, <2>1 DEF RowInv, FreshIsExposure, CurrentIsExposure, Pending
\* A step that touches neither the exposure nor a writer that has changed or read it.
<1>k. ASSUME UNCHANGED <<inv, row, seen, history>>,
             \A w \in Writer : at[w] \in {"changed", "read"} => at'[w] = at[w]
      PROVE  RowInv'
  BY <1>k, <1>t, SameExposure
     DEF RowInv, FreshIsExposure, CurrentIsExposure, Pending, history
<1>1. ASSUME NEW m \in Window, Reap(m)
      PROVE  RowInv'
  BY <1>1, <1>c DEF Reap, Writer
<1>2. ASSUME NEW m \in Window, Settle(m)
      PROVE  RowInv'
  BY <1>2, <1>k DEF Settle
<1>3. ASSUME NEW m \in Window, NEW q \in {-1, 1}, Book(m, q)
      PROVE  RowInv'
  BY <1>3, <1>c DEF Book, Writer
<1>4. ASSUME NEW m \in Window, NEW q \in {-1, 1}, Ingest(m, q)
      PROVE  RowInv'
  BY <1>4, <1>k, <1>t DEF Ingest, Goes, RowTypeOK, Writer
<1>5. CASE RecordFill
  BY <1>5, <1>k, <1>t DEF RecordFill, Goes, RowTypeOK, Writer
<1>6. CASE AddInventory
  BY <1>6, <1>c DEF AddInventory, Writer
<1>7. CASE Restart
  BY <1>7, <1>t DEF Restart, RowInv, FreshIsExposure, CurrentIsExposure
<1>8. ASSUME NEW w \in Writer, ReadExposure(w)
      PROVE  RowInv'
  <2>1. /\ at[w] = "changed" /\ at' = [at EXCEPT ![w] = "read"]
        /\ seen' = [seen EXCEPT ![w] = Exposure] /\ fresh' = fresh \cup {w}
        /\ inv' = inv /\ row' = row /\ current' = current
    BY <1>8 DEF ReadExposure, Goes, engine
  <2>2. FreshIsExposure'
    BY <1>t, <2>1, SameExposure DEF RowInv, FreshIsExposure, RowTypeOK
  <2>3. CurrentIsExposure' /\ Pending'
    BY <2>1, SameExposure DEF RowInv, CurrentIsExposure, Pending
  <2> QED BY <1>t, <2>2, <2>3 DEF RowInv
<1>9. ASSUME NEW w \in Writer, WriteRow(w)
      PROVE  RowInv'
  <2>1. /\ at[w] = "read" /\ row' = seen[w] /\ inv' = inv /\ seen' = seen
        /\ current' = (w \in fresh) /\ fresh' = fresh \ {w}
        /\ \A v \in Writer \ {w} : at'[v] = at[v]
    BY <1>9, <1>t DEF WriteRow, Done, Goes, engine, RowTypeOK
  <2>2. FreshIsExposure' /\ CurrentIsExposure'
    BY <2>1, SameExposure DEF RowInv, FreshIsExposure, CurrentIsExposure
  <2>3. CASE w \in fresh
    BY <1>t, <2>1, <2>2, <2>3 DEF RowInv
  \* The writer holds an older value: if the row was right it no longer is, and if it
  \* was not, the writer to put it right was another one.
  <2>4. CASE w \notin fresh
    <3>1. CASE current
      BY <1>9, <1>t, <2>2, <2>4, <3>1 DEF WriteRow, RowInv
    <3>2. CASE ~current /\ Pending
      <4>1. Pending'
        BY <2>1, <2>4, <3>2 DEF Pending
      <4> QED BY <1>t, <2>2, <4>1 DEF RowInv
    <3>3. CASE ~current /\ excuses # {}
      BY <1>9, <1>t, <2>2, <3>3 DEF WriteRow, RowInv
    <3> QED BY <3>1, <3>2, <3>3 DEF RowInv
  <2> QED BY <2>3, <2>4
<1>10. ASSUME NEW w \in Writer, WriteFails(w)
       PROVE  RowInv'
  <2>1. /\ inv' = inv /\ row' = row /\ seen' = seen /\ current' = current
        /\ fresh' = fresh \ {w} /\ \A v \in Writer \ {w} : at'[v] = at[v]
        /\ excuses' # {}
    BY <1>10, <1>t DEF WriteFails, Done, Goes, engine, RowTypeOK
  <2> QED BY <1>t, <2>1, SameExposure DEF RowInv, FreshIsExposure, CurrentIsExposure
<1>11. CASE UNCHANGED vars
  BY <1>11, <1>k DEF vars, engine
<1> QED BY <1>1, <1>2, <1>3, <1>4, <1>5, <1>6, <1>7, <1>8, <1>9, <1>10, <1>11 DEF Next

\* Once every writer is through, the row the dashboard reads is the exposure the
\* engine enforces, unless a writer put an older value over a newer one, a write
\* failed or the process was restarted (engine.go:1034-1042, 1044-1070).
THEOREM RowRightUnlessExcused == Spec => []RowWrongOnlyIfOvertaken
<1>1. Init => RowInv
  BY DEF Init, RowInv, RowTypeOK, Places, FreshIsExposure, CurrentIsExposure, Exposure
<1>2. RowInv => RowWrongOnlyIfOvertaken
  BY DEF RowInv, RowTypeOK, Places, FreshIsExposure, CurrentIsExposure, Pending,
         RowWrongOnlyIfOvertaken, Quiet
<1> QED BY <1>1, <1>2, RowInductive, PTL DEF Spec
=============================================================================
