----------------------------- MODULE EventFeed -----------------------------
(***************************************************************************)
(* The event feed of an agent: task_events rows written by the handlers    *)
(* (internal/db/task_event_repo.go), read in pages by GET /events and      *)
(* reported by scripts/acb-agent-poller.py, which keeps its place in       *)
(* agents.last_event_id.  An INSERT draws its id from the table's sequence *)
(* first and its row is visible to readers only once it has committed.     *)
(***************************************************************************)
EXTENDS Naturals, FiniteSets

CONSTANTS
    MaxEvents,   \* bound: ids the sequence hands out
    Limit,       \* rows in a page of GET /events
    Pollers,     \* runs of the poller for one agent that may overlap
    Foreign      \* ids of the rows that name another agent

ASSUME BoundsType == MaxEvents \in Nat /\ Limit \in Nat \ {0}

VARIABLES
    nextId,    \* the sequence behind task_events.id
    inserting, \* ids drawn by an INSERT that has not committed
    log,       \* ids of the visible rows
    cursor,    \* agents.last_event_id, 0 while NULL
    poller,    \* poller[p]: where run p of the script stands
    reported,  \* ids whose notification line was printed
    missed     \* history: ids of rows that the feed may have to go without

tableVars == <<nextId, inserting, log>>
vars == <<nextId, inserting, log, cursor, poller, reported, missed>>

Ids == 1..MaxEvents

\* A run of the script: before its read of the events, its save of the cursor
\* or its output; after is the cursor it read and page the rows it received.
Run == [pc : {"idle", "fetch", "save", "print"},
        after : 0..MaxEvents, page : SUBSET Ids]

NoRun == [pc |-> "idle", after |-> 0, page |-> {}]

Init ==
    /\ nextId = 1
    /\ inserting = {}
    /\ log = {}
    /\ cursor = 0
    /\ poller = [p \in Pollers |-> NoRun]
    /\ reported = {}
    /\ missed = {}

-----------------------------------------------------------------------------
(* InsertEvent *)

DrawId ==
    /\ nextId <= MaxEvents
    /\ inserting' = inserting \cup {nextId}
    /\ nextId' = nextId + 1
    /\ UNCHANGED <<log, cursor, poller, reported, missed>>

\* The stored cursor, or the place a run reads from or is about to store, has
\* passed i.
Passed(i) ==
    \/ i <= cursor
    \/ \E p \in Pollers :
          /\ poller[p].pc \in {"fetch", "save"}
          /\ i <= poller[p].after \/ \E j \in poller[p].page : i < j

\* Handlers insert concurrently, so rows commit in any order.
CommitRow(i) ==
    /\ i \in inserting
    /\ inserting' = inserting \ {i}
    /\ log' = log \cup {i}
    /\ missed' = IF Passed(i) THEN missed \cup {i} ELSE missed
    /\ UNCHANGED <<nextId, cursor, poller, reported>>

\* logTaskEvent drops the error of a failed INSERT; its id stays unused.
LoseRow(i) ==
    /\ i \in inserting
    /\ inserting' = inserting \ {i}
    /\ UNCHANGED <<nextId, log, cursor, poller, reported, missed>>

-----------------------------------------------------------------------------
(* One run of the poller *)

\* The rows above a cursor that the agent may see, and i's rank from the newest.
Above(after) == {i \in log \ Foreign : i > after}
Newer(i, after) == Cardinality({j \in Above(after) : j > i})

\* Fault: the row after the cursor is left out.
ListPast(after) == {i \in Above(after) : i > after + 1 /\ Newer(i, after) < Limit}

\* ListSince: the newest Limit rows above the cursor.
ListSince(after) == {i \in Above(after) : Newer(i, after) < Limit}

\* What the LIMIT leaves out.
CutOff(after) == {i \in Above(after) : Newer(i, after) >= Limit}

\* get_cursor: the stored id, or 0 if it is NULL or cannot be read.
GetCursor(p) ==
    /\ poller[p].pc = "idle"
    /\ \E after \in {cursor, 0} :
          poller' = [poller EXCEPT ![p] = [pc |-> "fetch", after |-> after, page |-> {}]]
    /\ UNCHANGED <<tableVars, cursor, reported, missed>>

\* Fault: the page starts at the cursor stored by now, not at the one read.
FetchFromStored(p) ==
    /\ poller[p].pc = "fetch"
    /\ LET page == ListSince(cursor)
       IN  poller' = [poller EXCEPT ![p] =
                        IF page = {} THEN NoRun
                        ELSE [pc |-> "save", after |-> @.after, page |-> page]]
    /\ missed' = missed \cup CutOff(poller[p].after)
    /\ UNCHANGED <<tableVars, cursor, reported>>

\* GET /events; a run that receives nothing has nothing to save or print.
FetchEvents(p) ==
    /\ poller[p].pc = "fetch"
    /\ LET page == ListSince(poller[p].after)
       IN  poller' = [poller EXCEPT ![p] =
                        IF page = {} THEN NoRun
                        ELSE [pc |-> "save", after |-> @.after, page |-> page]]
    /\ missed' = missed \cup CutOff(poller[p].after)
    /\ UNCHANGED <<tableVars, cursor, reported>>

\* Fault: the cursor moves to the newest row of the table.
SaveNewest(p) ==
    /\ poller[p].pc = "save"
    /\ \E last \in log : (\A i \in log : i <= last) /\ cursor' = last
    /\ poller' = [poller EXCEPT ![p].pc = "print"]
    /\ UNCHANGED <<tableVars, reported, missed>>

\* save_cursor: UpdateLastEventID stores the largest id of the page, whatever
\* is stored already; the script goes on if the request fails.
SaveCursor(p) ==
    /\ poller[p].pc = "save"
    /\ \/ \E last \in poller[p].page :
             (\A i \in poller[p].page : i <= last) /\ cursor' = last
       \/ UNCHANGED cursor
    /\ poller' = [poller EXCEPT ![p].pc = "print"]
    /\ UNCHANGED <<tableVars, reported, missed>>

PrintLines(p) ==
    /\ poller[p].pc = "print"
    /\ reported' = reported \cup poller[p].page
    /\ poller' = [poller EXCEPT ![p] = NoRun]
    /\ UNCHANGED <<tableVars, cursor, missed>>

\* The fetch fails and the script exits, or its process is killed: before the
\* output nothing tells it from a run that got nothing.
Die(p) ==
    /\ poller[p] # NoRun
    /\ poller' = [poller EXCEPT ![p] = NoRun]
    /\ missed' = IF poller[p].pc = "print" THEN missed \cup poller[p].page ELSE missed
    /\ UNCHANGED <<tableVars, cursor, reported>>

-----------------------------------------------------------------------------

Insert == DrawId \/ \E i \in Ids : CommitRow(i) \/ LoseRow(i)

Poll(p) == GetCursor(p) \/ FetchEvents(p) \/ SaveCursor(p) \/ PrintLines(p)

Next == Insert \/ \E p \in Pollers : Poll(p) \/ Die(p)

Spec == Init /\ [][Next]_vars

\* cron starts the script again and again, a run that started goes on, and runs
\* do not fail or die at the same request every time.
FairSpec ==
    /\ Spec
    /\ \A p \in Pollers :
          WF_vars(Poll(p)) /\ SF_vars(FetchEvents(p)) /\ SF_vars(SaveCursor(p))

-----------------------------------------------------------------------------
(* Correctness *)

\* The registers have their types; only visible rows are in hand or reported.
TypeOK ==
    /\ nextId \in 1..MaxEvents + 1
    /\ inserting \cup log \subseteq 1..nextId - 1 /\ inserting \cap log = {}
    /\ cursor \in 0..MaxEvents
    /\ poller \in [Pollers -> Run] /\ \A p \in Pollers : poller[p].page \subseteq log
    /\ reported \cup missed \subseteq log

\* The rows a run holds that has only its output left to do.
InHand == UNION {poller[p].page : p \in {q \in Pollers : poller[q].pc = "print"}}

\* A row the stored cursor has passed was reported, is in the hands of a run that
\* is about to print it, or was missed in one of three ways: it committed behind a
\* reader, a full page had no room for it, or its run was killed before its output.
\* The next run asks only for rows above the cursor, so nothing else, overlapping
\* runs that move the cursor back and failing saves included, loses a row.
Covered(c) == \A i \in log \ Foreign : i <= c => i \in reported \cup InHand \cup missed
NoSkip == Covered(cursor)

\* Every row the agent may see is reported in the end, but for those three ways.
AllReported == \A i \in Ids \ Foreign : i \in log ~> i \in reported \cup missed

\* What NoSkip rests on: where a run reads from, and what it is about to store,
\* leaves no gap either.
PagesHaveNoGap ==
    \A p \in Pollers :
        /\ poller[p].pc \in {"fetch", "save"} => Covered(poller[p].after)
        /\ poller[p].pc = "save" =>
              \A i \in log \ Foreign, last \in poller[p].page :
                 poller[p].after < i /\ i <= last => i \in poller[p].page \cup missed

IInv == TypeOK /\ NoSkip /\ PagesHaveNoGap
=============================================================================
