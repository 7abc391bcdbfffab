-------------------------- MODULE EventFeedProofs --------------------------
(***************************************************************************)
(* Proofs about EventFeed, for any number of rows, page size and           *)
(* overlapping runs of the poller.                                         *)
(***************************************************************************)
EXTENDS EventFeed, FiniteSetTheorems, TLAPS

\* The LIMIT divides the rows above a cursor: what a page has no room for is cut off.
LEMMA PageOrCut ==
    ASSUME log \subseteq Ids, NEW after, NEW i \in log \ Foreign, i > after
    PROVE  i \in ListSince(after) \cup CutOff(after)
<1> DEFINE newer == {j \in Above(after) : j > i}
<1>1. IsFiniteSet(Ids)
    BY BoundsType, FS_Interval DEF Ids
<1>2. newer \subseteq Ids
    BY DEF Above
<1>3. Cardinality(newer) \in Nat
    BY <1>1, <1>2, FS_Subset, FS_CardinalityType
<1>4. Newer(i, after) \in Nat
    BY <1>3 DEF Newer
<1>5. i \in Above(after) /\ Limit \in Nat
    BY BoundsType DEF Above
<1> QED BY <1>4, <1>5 DEF ListSince, CutOff

\* Pages are rows of the table.
LEMMA PageRows == \A after : ListSince(after) \cup CutOff(after) \subseteq log \ Foreign
BY DEF ListSince, CutOff, Above

\* The registers keep their types in every setting.
LEMMA TypeInit == Init => TypeOK
BY BoundsType DEF Init, TypeOK, Run, NoRun, Ids

LEMMA TypeStep == TypeOK /\ [Next]_vars => TypeOK'
<1> SUFFICES ASSUME TypeOK, [Next]_vars PROVE TypeOK'
    OBVIOUS
<1> USE BoundsType DEF TypeOK, tableVars
<1>1. CASE DrawId
    BY <1>1 DEF DrawId
<1>2. ASSUME NEW i \in Ids, CommitRow(i) PROVE TypeOK'
    BY <1>2 DEF CommitRow
<1>3. ASSUME NEW i \in Ids, LoseRow(i) PROVE TypeOK'
    BY <1>3 DEF LoseRow
<1>4. ASSUME NEW p \in Pollers, GetCursor(p) PROVE TypeOK'
    BY <1>4 DEF GetCursor, Run, Ids
<1>5. ASSUME NEW p \in Pollers, FetchEvents(p) PROVE TypeOK'
  <2>1. ListSince(poller[p].after) \in SUBSET log /\ CutOff(poller[p].after) \in SUBSET log
      BY PageRows
  <2>2. log \in SUBSET Ids
      BY DEF Ids
  <2> QED BY <1>5, <2>1, <2>2 DEF FetchEvents, Run, NoRun
<1>6. ASSUME NEW p \in Pollers, SaveCursor(p) PROVE TypeOK'
    BY <1>6 DEF SaveCursor, Run, Ids
<1>7. ASSUME NEW p \in Pollers, PrintLines(p) PROVE TypeOK'
    BY <1>7 DEF PrintLines, Run, NoRun
<1>8. ASSUME NEW p \in Pollers, Die(p) PROVE TypeOK'
    BY <1>8 DEF Die, Run, NoRun
<1>9. CASE UNCHANGED vars
    BY <1>9 DEF vars
<1> QED BY <1>1, <1>2, <1>3, <1>4, <1>5, <1>6, <1>7, <1>8, <1>9
        DEF Next, Insert, Poll

\* The initial feed is empty, so nothing is skipped.
LEMMA InvInit == Init => IInv
<1> SUFFICES ASSUME Init PROVE IInv
    OBVIOUS
<1>1. NoSkip /\ PagesHaveNoGap
    BY DEF Init, NoSkip, Covered, PagesHaveNoGap, NoRun
<1> QED BY <1>1, TypeInit DEF IInv

\* Rows that commit, and cursors and pages that move, leave no gap behind.
LEMMA InvStep == IInv /\ [Next]_vars => IInv'
<1> SUFFICES ASSUME IInv, [Next]_vars PROVE (NoSkip /\ PagesHaveNoGap)'
    BY TypeStep DEF IInv
<1> USE BoundsType DEF IInv, TypeOK, NoSkip, Covered, InHand, PagesHaveNoGap, tableVars
<1>1. CASE DrawId
    BY <1>1 DEF DrawId
<1>2. ASSUME NEW i \in Ids, CommitRow(i) PROVE (NoSkip /\ PagesHaveNoGap)'
    BY <1>2 DEF CommitRow, Passed, Run, Ids
<1>3. ASSUME NEW i \in Ids, LoseRow(i) PROVE (NoSkip /\ PagesHaveNoGap)'
    BY <1>3 DEF LoseRow
<1>4. ASSUME NEW p \in Pollers, GetCursor(p) PROVE (NoSkip /\ PagesHaveNoGap)'
    BY <1>4 DEF GetCursor, Ids
<1>5. ASSUME NEW p \in Pollers, FetchEvents(p) PROVE (NoSkip /\ PagesHaveNoGap)'
  <2>1. \A i \in log \ Foreign : poller[p].after < i =>
            i \in ListSince(poller[p].after) \cup missed'
    <3>1. log \subseteq Ids
        BY DEF Ids
    <3>2. ASSUME NEW i \in log \ Foreign, poller[p].after < i
          PROVE  i \in ListSince(poller[p].after) \cup CutOff(poller[p].after)
        BY <3>1, <3>2, PageOrCut DEF Run
    <3> QED BY <1>5, <3>2 DEF FetchEvents
  <2> QED BY <1>5, <2>1 DEF FetchEvents, NoRun, Run
<1>6. ASSUME NEW p \in Pollers, SaveCursor(p) PROVE (NoSkip /\ PagesHaveNoGap)'
    BY <1>6 DEF SaveCursor, Run, Ids
<1>7. ASSUME NEW p \in Pollers, PrintLines(p) PROVE (NoSkip /\ PagesHaveNoGap)'
    BY <1>7 DEF PrintLines, NoRun
<1>8. ASSUME NEW p \in Pollers, Die(p) PROVE (NoSkip /\ PagesHaveNoGap)'
    BY <1>8 DEF Die, NoRun
<1>9. CASE UNCHANGED vars
    BY <1>9 DEF vars
<1> QED BY <1>1, <1>2, <1>3, <1>4, <1>5, <1>6, <1>7, <1>8, <1>9
        DEF Next, Insert, Poll

\* The registers of the feed keep their types and only visible rows are in hand
\* or reported.
THEOREM FeedTypeCorrect == Spec => []TypeOK
BY TypeInit, TypeStep, PTL DEF Spec

\* What the runs hold and are about to store stays consistent with every cursor,
\* however handlers and runs overlap and fail.
THEOREM FeedInvariant == Spec => []IInv
BY InvInit, InvStep, PTL DEF Spec

\* A row behind the cursor that was not reported and will not be printed by a run
\* either committed behind a reader, or was cut off a full page, or was in a run
\* that was killed before its output: there is no fourth way to lose one.
THEOREM FeedSkipsNothing == Spec => []NoSkip
<1>1. IInv => NoSkip
    BY DEF IInv
<1> QED BY <1>1, FeedInvariant, PTL
=============================================================================
