---------------------------- MODULE CaseSync_proofs ----------------------------
(***************************************************************************)
(* CaseSync: its types; and, when what changes cases comes in turn and may *)
(* overlap only pushes (InTurn), that timelines tell the states, that      *)
(* cases follow the whitelist, and, with a directory of files, that our    *)
(* own writing is dropped and other people's is heard.                     *)
(* The invariants: StoryInv, of rows, timelines and what has been read of  *)
(* them, and SyncInv, of revisions stored, sent and quoted.                *)
(***************************************************************************)
EXTENDS CaseSync, TLAPS

\* Whatever changes a case, and whatever talks to the system of record, comes
\* one after the other; the two overlap.
InTurn == Overlapping \subseteq {{k, "push"} : k \in Edits \cup {"analyse"}}

-----------------------------------------------------------------------------
(* Types *)

\* What a coroutine holds, and that it fits what it is at.
Work == [kind : AllKinds \cup {"none"}, pc : PCs, case : Cases \cup {0}, row : Row, now : Row,
         want : Owners \cup {NoOne, Unsaid} \cup States \cup Severities \cup Nat, seq : Nat,
         pass : BOOLEAN, todo : SUBSET Cases, news : SUBSET Change, change : SUBSET Change]
Fits(w) ==
    /\ w.pc = "idle" => w = NoWork
    /\ w.pc # "idle" => w.kind # "none"
    /\ w.kind \in Edits \cup {"note", "analyse"} => w.pc = "write"
    /\ w.kind = "push" => w.pc \in {"write", "sent", "failed", "next"}
    /\ w.kind = "pull" => w.pc \notin {"idle", "write", "sent", "failed"} /\ w.pass
    /\ w.pc \notin {"idle", "next"} => w.case \in Cases
    /\ w.kind = "assign" => w.want \in Owners \cup {NoOne}
    /\ w.kind = "state" => w.want \in States
    /\ w.kind = "escalate" => w.want \in 1 .. MaxTier
    /\ w.kind = "analyse" => w.want \in Severities
    /\ w.pc = "next" => w.pass /\ w.change = {}
    /\ w.change # {} => w.kind = "pull"
    /\ \A x, y \in w.change : x = y
    /\ w.pc \in {"assign", "assigning"} => \A ch \in w.change : ch.owner \in Owners \cup {NoOne}
    /\ w.pc \in {"move", "moving"} => \A ch \in w.change : ch.state \in States
Rows == case \in [Cases -> Row] /\ timeline \in [Cases -> Timeline]
Held == proc \in [Procs -> Work] /\ \A p \in Procs : Fits(proc[p])
Away == /\ ticket \in [Cases -> Ticket] /\ inbox \subseteq Change
        /\ missed \in BOOLEAN
        /\ used \in [requests : Nat, outside : Nat, outages : Nat, crashes : Nat]
TypeInv == Rows /\ Held /\ Away

LEMMA Constants ==
    /\ NoOne \notin Owners /\ Unsaid \notin Owners /\ NoOne # Unsaid
    /\ Unsaid \notin States /\ "unmapped" \notin States
    /\ MaxTier \in Nat /\ Severities # {}
<1>1. NoOne # Unsaid /\ Unsaid \notin States /\ "unmapped" \notin States
  BY DEF NoOne, Unsaid, States
<1>2. QED
  BY <1>1, CaseSyncAssumption

LEMMA NoCaseTyped == NoCase \in Row /\ (\A s \in Severities : Opened(s) \in Row)
<1>1. ASSUME NEW s \in Severities PROVE Opened(s) \in Row
  BY Constants DEF Opened, Row, States
<1>2. (CHOOSE s \in Severities : TRUE) \in Severities
  BY Constants
<1>3. NoCase \in Row
  <2>1. \A r \in Row : [r EXCEPT !.there = FALSE] \in Row
    BY DEF Row
  <2>2. Opened(CHOOSE s \in Severities : TRUE) \in Row
    BY ONLY <1>1, <1>2
  <2>3. QED
    BY ONLY <2>1, <2>2 DEF NoCase
<1>4. QED
  BY <1>1, <1>3

LEMMA NoWorkTyped == NoWork \in Work /\ Fits(NoWork)
<1>1. NoWork \in Work
  BY NoCaseTyped DEF NoWork, Work, PCs
<1>2. Fits(NoWork)
  BY DEF NoWork, Fits, Edits
<1>3. QED
  BY <1>1, <1>2

LEMMA TransitionsTyped == \A s \in States : Transitions[s] \subseteq States
  BY DEF Transitions, States, Working

\* The next part of a change asks for something.
LEMMA PartTyped ==
    ASSUME NEW ch \in Change, NEW row \in Row, NEW i \in 1 .. 4
    PROVE  /\ Part(ch, row, i) \in {"assign", "move", "note", "record"}
           /\ Part(ch, row, i) = "assign" => ch.owner \in Owners \cup {NoOne}
           /\ Part(ch, row, i) = "move" => ch.state \in States
<1> DEFINE Next1(j) == /\ Asks(ch, row, Parts[j])
                       /\ \A k \in i .. j - 1 : ~ Asks(ch, row, Parts[k])
           j == CHOOSE j \in i .. 4 : Next1(j)
<1>1. Asks(ch, row, Parts[4])
  BY DEF Asks, Parts
<1>2. \E k \in i .. 4 : Next1(k)
  <2>1. CASE Next1(i) BY <2>1
  <2>2. CASE i + 1 \in i .. 4 /\ Next1(i + 1) BY <2>2
  <2>3. CASE i + 2 \in i .. 4 /\ Next1(i + 2) BY <2>3
  <2>4. CASE i + 3 \in i .. 4 /\ Next1(i + 3) BY <2>4
  <2>5. QED
    <3> HIDE DEF Parts
    <3>1. CASE i = 1 BY <3>1, <1>1, <2>1, <2>2, <2>3, <2>4
    <3>2. CASE i = 2 BY <3>2, <1>1, <2>1, <2>2, <2>3
    <3>3. CASE i = 3 BY <3>3, <1>1, <2>1, <2>2
    <3>4. CASE i = 4 BY <3>4, <1>1, <2>1
    <3>5. QED BY <3>1, <3>2, <3>3, <3>4
<1>3. j \in i .. 4 /\ Next1(j)
  BY <1>2
<1>4. Part(ch, row, i) = Parts[j] /\ Asks(ch, row, Parts[j]) /\ j \in 1 .. 4
  BY <1>3 DEF Part
<1> HIDE DEF j
<1>5. Parts[j] \in {"assign", "move", "note", "record"}
  BY <1>4 DEF Parts
<1>6. QED
  BY <1>4, <1>5, Constants DEF Asks, Change

LEMMA TypeInit == ASSUME Init PROVE TypeInv
<1>1. Rows
  <2>1. NoTimeline \in Timeline
    BY DEF NoTimeline, Timeline, States
  <2>2. QED
    BY <2>1, NoCaseTyped DEF Init, Rows
<1>2. Held
  BY NoWorkTyped DEF Init, Held
<1>3. Away
  BY DEF Init, Away, Ticket, States
<1>4. QED
  BY <1>1, <1>2, <1>3 DEF TypeInv

\* A coroutine goes on with w.
LEMMA HeldStep ==
    ASSUME Held, NEW p \in Procs, NEW w \in Work, Fits(w), proc' = [proc EXCEPT ![p] = w]
    PROVE  Held'
  BY DEF Held

LEMMA WriteTyped ==
    ASSUME TypeInv, NEW p \in Procs, proc[p].case \in Cases, NEW row \in Row,
           NEW t \in Timeline, NEW then \in Work, Fits(then), missed' \in BOOLEAN,
           Write(p, row, t, then)
    PROVE  TypeInv'
<1>1. Held'
  BY HeldStep DEF TypeInv, Write
<1>2. Rows'
  BY DEF TypeInv, Rows, Write
<1>3. Away'
  BY DEF TypeInv, Away, Write, outside
<1>4. QED
  BY <1>1, <1>2, <1>3 DEF TypeInv

LEMMA RowsTyped ==
    ASSUME NEW row \in Row, NEW read \in Row
    PROVE  /\ \A owner \in Owners \cup {NoOne} : Assigned(row, read, owner) \in Row
           /\ \A to \in States : Moved(row, read, to) \in Row
           /\ \A tier \in 1 .. MaxTier : Raised(row, read, tier) \in Row
           /\ \A severity \in Severities : Renewed(row, read, severity) \in Row
           /\ Pushed(row, read) \in Row /\ [row EXCEPT !.status = "ERROR"] \in Row
<1>1. ASSUME NEW owner \in Owners \cup {NoOne} PROVE Assigned(row, read, owner) \in Row
  BY DEF Assigned, Row, States
<1>2. ASSUME NEW to \in States PROVE Moved(row, read, to) \in Row
  BY DEF Moved, Row
<1>3. ASSUME NEW tier \in 1 .. MaxTier PROVE Raised(row, read, tier) \in Row
  <2>1. tier \in 0 .. MaxTier /\ "ESCALATED" \in States
    BY Constants DEF States
  <2>2. \A x \in 0 .. MaxTier, y \in States : [row EXCEPT !.tier = x, !.state = y] \in Row
    BY DEF Row
  <2>3. row.state \in States
    BY DEF Row
  <2>4. QED
    BY <2>1, <2>2, <2>3 DEF Raised
<1>4. ASSUME NEW severity \in Severities PROVE Renewed(row, read, severity) \in Row
  BY DEF Renewed, Row
<1>5. Pushed(row, read) \in Row /\ [row EXCEPT !.status = "ERROR"] \in Row
  <2>1. read.rev + 1 \in Nat
    BY DEF Row
  <2>2. \A n \in Nat : [row EXCEPT !.status = "OK", !.rev = n, !.ref = TRUE] \in Row
    BY DEF Row
  <2>3. [row EXCEPT !.status = "ERROR"] \in Row
    BY DEF Row
  <2>4. QED
    BY <2>1, <2>2, <2>3 DEF Pushed
<1>6. QED
  BY <1>1, <1>2, <1>3, <1>4, <1>5

LEMMA TimelinesTyped ==
    ASSUME NEW t \in Timeline
    PROVE  /\ Logged(t) \in Timeline /\ LoggedRise(t) \in Timeline
           /\ \A owner : LoggedAssignment(t, owner) \in Timeline
           /\ \A from, to \in States : LoggedMove(t, from, to) \in Timeline
           /\ \A seq \in Nat : LoggedAs(t, seq) \in Timeline
<1>1. Logged(t) \in Timeline
  BY DEF Logged, Timeline
<1>2. LoggedRise(t) \in Timeline
  BY <1>1 DEF LoggedRise, Timeline, States
<1>3. ASSUME NEW owner PROVE LoggedAssignment(t, owner) \in Timeline
  BY <1>1 DEF LoggedAssignment, Timeline, States
<1>4. ASSUME NEW from \in States, NEW to \in States PROVE LoggedMove(t, from, to) \in Timeline
  BY <1>1 DEF LoggedMove, Timeline
<1>5. ASSUME NEW seq \in Nat PROVE LoggedAs(t, seq) \in Timeline
  BY DEF LoggedAs, Timeline
<1>6. QED
  BY <1>1, <1>2, <1>3, <1>4, <1>5

LEMMA StartsTyped ==
    ASSUME TypeInv, NEW p, NEW kind \in AllKinds \ {"pull"}, NEW c \in Cases, NEW want,
           Starts(p, kind, c, want),
           want \in Owners \cup {NoOne, Unsaid} \cup States \cup Severities \cup Nat,
           kind = "assign" => want \in Owners \cup {NoOne},
           kind = "state" => want \in States,
           kind = "escalate" => want \in 1 .. MaxTier,
           kind = "analyse" => want \in Severities
    PROVE  TypeInv'
<1> DEFINE w == [NoWork EXCEPT !.kind = kind, !.pc = "write", !.case = c,
                               !.row = case[c], !.now = case[c], !.want = want,
                               !.seq = timeline[c].top + 1]
<1>1. case[c] \in Row /\ timeline[c].top + 1 \in Nat
  BY DEF TypeInv, Rows, Timeline
<1>2. w \in Work
  BY <1>1, NoWorkTyped DEF Work, PCs, NoWork
<1>3. Fits(w)
  BY <1>2 DEF Fits, NoWork, Edits, AllKinds
<1>4. p \in Procs /\ proc' = [proc EXCEPT ![p] = w]
  BY DEF Starts, Procs
<1> HIDE DEF w
<1>5. Held'
  BY <1>2, <1>3, <1>4, HeldStep DEF TypeInv
<1>6. Rows' /\ Away'
  BY DEF TypeInv, Rows, Away, Starts, outside
<1>7. QED
  BY <1>5, <1>6 DEF TypeInv

LEMMA BeginTyped == ASSUME TypeInv, NEW p \in Procs, Begin(p) PROVE TypeInv'
<1>1. PICK c \in Cases :
        \/ \E owner \in Owners \cup {NoOne} : AssignRead(p, c, owner)
        \/ \E to \in States : StateRead(p, c, to)
        \/ \E tier \in 1 .. MaxTier : EscalateRead(p, c, tier)
        \/ NoteRead(p, c) \/ PushAsked(p, c)
        \/ \E severity \in Severities : AnalyseRead(p, c, severity)
  BY DEF Begin
<1> USE DEF AllKinds, Edits
<1>2. ASSUME NEW owner \in Owners \cup {NoOne}, AssignRead(p, c, owner) PROVE TypeInv'
  BY <1>2, StartsTyped DEF AssignRead
<1>3. ASSUME NEW to \in States, StateRead(p, c, to) PROVE TypeInv'
  BY <1>3, StartsTyped DEF StateRead
<1>4. ASSUME NEW tier \in 1 .. MaxTier, EscalateRead(p, c, tier) PROVE TypeInv'
  <2>1. tier \in Nat
    BY Constants
  <2>2. QED
    BY <1>4, <2>1, StartsTyped DEF EscalateRead
<1>5. CASE NoteRead(p, c)
  BY <1>5, StartsTyped DEF NoteRead
<1>6. CASE PushAsked(p, c)
  BY <1>6, StartsTyped DEF PushAsked
<1>7. ASSUME NEW severity \in Severities, AnalyseRead(p, c, severity) PROVE TypeInv'
  BY <1>7, StartsTyped DEF AnalyseRead
<1>8. QED
  BY <1>1, <1>2, <1>3, <1>4, <1>5, <1>6, <1>7

LEMMA RequestWriteTyped == ASSUME TypeInv, NEW p \in Procs, RequestWrite(p) PROVE TypeInv'
<1> DEFINE w == proc[p]
<1>1. w \in Work /\ Fits(w) /\ missed \in BOOLEAN
  BY DEF TypeInv, Held, Away
<1>2. w.pc = "write" /\ w.kind \notin {"pull", "push"} /\ missed' = missed
  BY DEF RequestWrite, AssignWrite, StateWrite, EscalateWrite, NoteWrite, EnsureInsert,
         EnsureUpdate, AtWrite
<1>3. w.case \in Cases /\ w.now \in Row /\ w.seq \in Nat
  BY <1>1, <1>2 DEF Fits, Work
<1>4. RowOf(p) \in Row /\ TimelineOf(p) \in Timeline
  BY <1>3 DEF TypeInv, Rows, RowOf, TimelineOf
<1>5. NoWork \in Work /\ Fits(NoWork)
  BY NoWorkTyped
<1>6. \A row \in Row, t \in Timeline : Write(p, row, t, NoWork) => TypeInv'
  BY <1>1, <1>2, <1>3, <1>5, WriteTyped
<1>7. CASE AssignWrite(p)
  <2>1. w.want \in Owners \cup {NoOne}
    BY <1>1, <1>7 DEF AssignWrite, AtWrite, Fits
  <2>2. QED
    BY <1>3, <1>4, <1>6, <1>7, <2>1, RowsTyped, TimelinesTyped DEF AssignWrite
<1>8. CASE StateWrite(p)
  <2>1. w.want \in States /\ w.now.state \in States
    BY <1>1, <1>3, <1>8 DEF StateWrite, AtWrite, Fits, Row
  <2>2. QED
    BY <1>3, <1>4, <1>6, <1>8, <2>1, RowsTyped, TimelinesTyped DEF StateWrite
<1>9. CASE EscalateWrite(p)
  <2>1. w.want \in 1 .. MaxTier
    BY <1>1, <1>9 DEF EscalateWrite, AtWrite, Fits
  <2>2. QED
    BY <1>3, <1>4, <1>6, <1>9, <2>1, RowsTyped, TimelinesTyped DEF EscalateWrite
<1>10. CASE NoteWrite(p)
  BY <1>3, <1>4, <1>6, <1>10, TimelinesTyped DEF NoteWrite
<1>11. CASE EnsureInsert(p)
  <2>1. w.want \in Severities
    BY <1>1, <1>11 DEF EnsureInsert, AtWrite, Fits
  <2>2. Opened(w.want) \in Row
    BY <2>1, NoCaseTyped
  <2>3. QED
    BY <1>3, <1>4, <1>6, <1>11, <2>2, TimelinesTyped DEF EnsureInsert
<1>12. CASE EnsureUpdate(p)
  <2>1. w.want \in Severities
    BY <1>1, <1>12 DEF EnsureUpdate, AtWrite, Fits
  <2>2. QED
    BY <1>3, <1>4, <1>6, <1>12, <2>1, RowsTyped DEF EnsureUpdate
<1>13. QED
  BY <1>7, <1>8, <1>9, <1>10, <1>11, <1>12 DEF RequestWrite

\* A step that only moves a coroutine, or the history.
LEMMA MoveTyped ==
    ASSUME TypeInv, NEW p \in Procs, NEW w \in Work, Fits(w), proc' = [proc EXCEPT ![p] = w],
           UNCHANGED <<case, timeline>>, Away'
    PROVE  TypeInv'
<1>1. Held'
  BY HeldStep DEF TypeInv
<1>2. QED
  BY <1>1 DEF TypeInv, Rows

LEMMA LeftTyped ==
    ASSUME TypeInv, NEW p \in Procs, proc[p].kind \in {"push", "pull"}
    PROVE  Left(p) \in Work /\ Fits(Left(p))
<1> DEFINE w == proc[p]
           v == [w EXCEPT !.pc = "next", !.change = {}]
<1>1. w \in Work /\ Fits(w)
  BY DEF TypeInv, Held
<1>2. CASE w.pass
  <2>1. v \in Work
    BY <1>1 DEF Work, PCs
  <2>2. Fits(v)
    BY <1>1, <1>2, <2>1 DEF Fits, Work, Edits
  <2>3. QED
    BY <1>2, <2>1, <2>2 DEF Left
<1>3. CASE ~w.pass
  BY <1>3, NoWorkTyped DEF Left
<1>4. QED
  BY <1>2, <1>3

LEMMA StampTyped ==
    ASSUME NEW row \in Row, NEW t \in Ticket PROVE Stamp(row, t) \in Ticket
<1>1. row.rev + 1 \in Nat /\ row.state \in States /\ row.owner \in Owners \cup {NoOne}
  BY DEF Row
<1>2. \A n \in Nat, x \in States, y \in Owners \cup {NoOne} :
         [t EXCEPT !.rev = n, !.state = x, !.owner = y] \in Ticket
  BY DEF Ticket
<1>3. t.state \in States /\ t.owner \in Owners \cup {NoOne}
  BY DEF Ticket
<1>4. QED
  BY <1>1, <1>2, <1>3 DEF Stamp

LEMMA PushTyped ==
    ASSUME TypeInv, NEW p \in Procs, NEW c \in Cases,
           PushRead(p, c) \/ PushSent(p, c) \/ PushFailed(p, c)
    PROVE  TypeInv'
<1> DEFINE w == proc[p]
<1>1. w \in Work /\ Fits(w) /\ case[c] \in Row /\ Away
  BY DEF TypeInv, Held, Rows
<1>2. CASE PushRead(p, c)
  <2> DEFINE v == [w EXCEPT !.pc = "write", !.case = c, !.row = case[c], !.todo = @ \ {c}]
  <2>1. v \in Work
    BY <1>1 DEF Work, PCs
  <2>2. Fits(v)
    BY <1>1, <1>2, <2>1 DEF PushRead, Fits, Work, Edits
  <2>3. proc' = [proc EXCEPT ![p] = v]
    BY <1>2 DEF PushRead, Held, TypeInv
  <2>4. Away' /\ UNCHANGED <<case, timeline>>
    BY <1>1, <1>2 DEF PushRead, Away, outside
  <2> HIDE DEF v
  <2>5. QED
    BY <2>1, <2>2, <2>3, <2>4, MoveTyped
<1>3. CASE PushSent(p, c)
  <2> DEFINE v == [w EXCEPT !.pc = "sent"]
  <2>1. v \in Work
    BY <1>1 DEF Work, PCs
  <2>2. Fits(v)
    BY <1>1, <1>3, <2>1 DEF PushSent, AtWrite, Fits, Work, Edits
  <2>3. proc' = [proc EXCEPT ![p] = v]
    BY <1>3 DEF PushSent
  <2>4. Stamp(w.row, ticket[c]) \in Ticket
    BY <1>1, StampTyped DEF Away, Work
  <2>5. Away' /\ UNCHANGED <<case, timeline>>
    BY <1>1, <1>3, <2>4 DEF PushSent, Away
  <2> HIDE DEF v
  <2>6. QED
    BY <2>1, <2>2, <2>3, <2>5, MoveTyped
<1>4. CASE PushFailed(p, c)
  <2> DEFINE v == [w EXCEPT !.pc = "failed"]
  <2>1. v \in Work
    BY <1>1 DEF Work, PCs
  <2>2. Fits(v)
    BY <1>1, <1>4, <2>1 DEF PushFailed, AtWrite, Fits, Work, Edits
  <2>3. proc' = [proc EXCEPT ![p] = v]
    BY <1>4 DEF PushFailed
  <2>4. Stamp(w.row, ticket[c]) \in Ticket
    BY <1>1, StampTyped DEF Away, Work
  <2>5. ticket' = ticket \/ ticket' = [ticket EXCEPT ![c] = Stamp(w.row, @)]
    BY <1>4 DEF PushFailed
  <2>6. used' = used \/ used' = [used EXCEPT !.outages = @ + 1]
    BY <1>4 DEF PushFailed
  <2>7. ticket' \in [Cases -> Ticket]
    BY <1>1, <2>4, <2>5 DEF Away
  <2>8. Away' /\ UNCHANGED <<case, timeline>>
    BY <1>1, <1>4, <2>6, <2>7 DEF PushFailed, Away
  <2> HIDE DEF v
  <2>9. QED
    BY <2>1, <2>2, <2>3, <2>8, MoveTyped
<1>5. QED
  BY <1>2, <1>3, <1>4

LEMMA PushWriteTyped == ASSUME TypeInv, NEW p \in Procs, PushWrite(p) PROVE TypeInv'
<1> DEFINE w == proc[p]
<1>1. w \in Work /\ Fits(w) /\ missed \in BOOLEAN
  BY DEF TypeInv, Held, Away
<1>2. w.pc \in {"sent", "failed"} /\ missed' = missed
  BY DEF PushWrite
<1>3. w.kind = "push" /\ w.case \in Cases /\ w.row \in Row
  BY <1>1, <1>2 DEF Fits, Work, AllKinds, Edits
<1>4. case[w.case] \in Row /\ timeline[w.case] \in Timeline
  BY <1>3 DEF TypeInv, Rows
<1>5. Left(p) \in Work /\ Fits(Left(p))
  BY <1>3, LeftTyped
<1>6. \A row \in Row, t \in Timeline : Write(p, row, t, Left(p)) => TypeInv'
  BY <1>1, <1>2, <1>3, <1>5, WriteTyped
<1>7. QED
  BY <1>3, <1>4, <1>6, RowsTyped, TimelinesTyped DEF PushWrite

LEMMA PassTyped ==
    ASSUME TypeInv, NEW p \in Procs, PassStart(p) \/ Pull(p) \/ PassEnd(p)
    PROVE  TypeInv'
<1> DEFINE w == proc[p]
<1>1. w \in Work /\ Fits(w) /\ Away
  BY DEF TypeInv, Held
<1>2. CASE PassStart(p)
  <2> DEFINE v == [NoWork EXCEPT !.kind = "push", !.pc = "next", !.pass = TRUE,
                                 !.todo = FirstOf(Pending)]
  <2>1. FirstOf(Pending) \subseteq Cases
    BY DEF FirstOf, Pending
  <2>2. v \in Work
    BY <2>1, NoWorkTyped DEF Work, PCs, NoWork, AllKinds
  <2>3. Fits(v)
    BY <2>2 DEF Fits, NoWork, Edits
  <2>4. proc' = [proc EXCEPT ![p] = v]
    BY <1>2 DEF PassStart
  <2>5. Away' /\ UNCHANGED <<case, timeline>>
    BY <1>1, <1>2 DEF PassStart, Away, outside
  <2> HIDE DEF v
  <2>6. QED
    BY <2>2, <2>3, <2>4, <2>5, MoveTyped
<1>3. CASE Pull(p)
  <2> DEFINE v == [w EXCEPT !.kind = "pull", !.news = News]
  <2>1. News \subseteq Change
    <3>1. ASSUME NEW c \in Cases PROVE TicketAsRead(c) \in Change
      <4>1. ticket[c] \in Ticket
        BY <1>1 DEF Away
      <4>2. QED
        BY <4>1 DEF TicketAsRead, Change, Ticket
    <3>2. QED
      BY <1>1, <3>1 DEF News, Away
  <2>2. v \in Work
    BY <1>1, <2>1 DEF Work, AllKinds
  <2>3. Fits(v)
    BY <1>1, <1>3, <2>2 DEF Pull, Fits, Work, Edits
  <2>4. proc' = [proc EXCEPT ![p] = v]
    BY <1>3 DEF Pull
  <2>5. Away'
    BY <1>1, <1>3 DEF Pull, Away, Ticket
  <2>6. UNCHANGED <<case, timeline>>
    BY <1>3 DEF Pull
  <2> HIDE DEF v
  <2>7. QED
    BY <2>2, <2>3, <2>4, <2>5, <2>6, MoveTyped
<1>4. CASE PassEnd(p)
  <2>1. Away' /\ UNCHANGED <<case, timeline>>
    BY <1>1, <1>4 DEF PassEnd, Away, outside
  <2>2. QED
    BY <1>4, <2>1, NoWorkTyped, MoveTyped DEF PassEnd
<1>5. QED
  BY <1>2, <1>3, <1>4

LEMMA ApplyTyped ==
    ASSUME TypeInv, NEW p \in Procs, NEW ch \in proc[p].news, Apply(p, ch)
    PROVE  TypeInv'
<1> DEFINE w == proc[p]
           row == case[ch.case]
<1>1. w \in Work /\ Fits(w) /\ Away
  BY DEF TypeInv, Held
<1>2. ch \in Change
  BY <1>1 DEF Work
<1>3. row \in Row
  BY <1>2 DEF TypeInv, Rows, Change
<1>4. Away' /\ UNCHANGED <<case, timeline>>
  BY <1>1, <1>2 DEF Apply, Away, outside, Change
<1>5. CASE row.ref /\ ~ IsEcho(ch, row)
  <2> DEFINE part == Part(ch, row, 1)
             v == [w EXCEPT !.pc = part, !.case = ch.case, !.row = row,
                            !.news = @ \ {ch}, !.change = {ch}]
  <2>1. /\ part \in {"assign", "move", "note", "record"}
        /\ part = "assign" => ch.owner \in Owners \cup {NoOne}
        /\ part = "move" => ch.state \in States
    BY <1>2, <1>3, PartTyped
  <2>2. proc' = [proc EXCEPT ![p] = v]
    BY <1>5 DEF Apply, Held, TypeInv
  <2> HIDE DEF part
  <2>3. v \in Work
    BY <1>1, <1>2, <1>3, <2>1 DEF Work, PCs, Change
  <2>4. w.kind = "pull" /\ w.pass
    BY <1>1 DEF Apply, Fits
  <2>5. Fits(v)
    <3>1. v.pc = part /\ v.kind = "pull" /\ v.pass /\ v.case \in Cases /\ v.change = {ch}
      BY <1>1, <1>2, <2>4 DEF Work, Change
    <3> HIDE DEF v
    <3>2. QED
      BY <2>1, <3>1 DEF Fits, Edits
  <2> HIDE DEF v
  <2>6. QED
    BY <1>4, <2>2, <2>3, <2>5, MoveTyped
<1>6. CASE ~(row.ref /\ ~ IsEcho(ch, row))
  <2> DEFINE v == [w EXCEPT !.news = @ \ {ch}]
  <2>1. v \in Work
    BY <1>1 DEF Work
  <2>2. Fits(v)
    <3>1. w.kind = "pull" /\ w.pc = "next"
      BY DEF Apply
    <3>2. QED
      BY <1>1, <2>1, <3>1 DEF Fits, Work, Edits
  <2>3. proc' = [proc EXCEPT ![p] = v]
    BY <1>6 DEF Apply
  <2> HIDE DEF v
  <2>4. QED
    BY <1>4, <2>1, <2>2, <2>3, MoveTyped
<1>7. QED
  BY <1>5, <1>6

\* The pass goes on with the change in hand.
LEMMA NextPartTyped ==
    ASSUME TypeInv, NEW p \in Procs, NEW ch \in proc[p].change, NEW i \in 1 .. 4
    PROVE  LET v == [proc[p] EXCEPT !.pc = Part(ch, proc[p].row, i)] IN v \in Work /\ Fits(v)
<1> DEFINE w == proc[p]
           part == Part(ch, w.row, i)
           v == [w EXCEPT !.pc = part]
<1>1. w \in Work /\ Fits(w)
  BY DEF TypeInv, Held
<1>2. ch \in Change /\ w.row \in Row
  BY <1>1 DEF Work
<1>3. /\ part \in {"assign", "move", "note", "record"}
      /\ part = "assign" => ch.owner \in Owners \cup {NoOne}
      /\ part = "move" => ch.state \in States
  BY <1>2, PartTyped
<1> HIDE DEF part
<1>4. v \in Work
  BY <1>1, <1>3 DEF Work, PCs
<1>5. w.kind = "pull" /\ w.pass /\ \A x \in w.change : x = ch
  BY <1>1 DEF Fits
<1>6. Fits(v)
  <2>1. v.pc = part /\ v.kind = "pull" /\ v.pass /\ v.case = w.case /\ v.change = w.change
    BY <1>1, <1>5 DEF Work
  <2>2. w.case \in Cases
    BY <1>1, <1>5 DEF Fits
  <2> HIDE DEF v
  <2>3. QED
    BY <1>3, <1>5, <2>1, <2>2 DEF Fits, Edits
<1>7. QED
  BY <1>4, <1>6 DEF part

\* A pass reads the case again before it applies a part.
LEMMA GoesTyped ==
    ASSUME TypeInv, NEW p \in Procs, NEW pc \in PCs, Goes(p, pc),
           proc[p].kind = "pull" /\ proc[p].pc # "next",
           Fits([proc[p] EXCEPT !.pc = pc]),
           UNCHANGED <<case, timeline, outside, used, missed>>
    PROVE  TypeInv'
<1> DEFINE w == proc[p]
           c == w.case
           u == [w EXCEPT !.pc = pc]
           v == [w EXCEPT !.pc = pc, !.now = case[c], !.seq = timeline[c].top + 1]
<1>1. w \in Work /\ Fits(w) /\ Away
  BY DEF TypeInv, Held
<1>2. c \in Cases
  BY <1>1 DEF Fits
<1>3. case[c] \in Row /\ timeline[c].top + 1 \in Nat
  BY <1>2 DEF TypeInv, Rows, Timeline
<1>4. v \in Work
  BY <1>1, <1>3 DEF Work
<1>5. Fits(v)
  <2>1. /\ v.pc = u.pc /\ v.kind = u.kind /\ v.pass = u.pass /\ v.case = u.case
        /\ v.want = u.want /\ v.change = u.change
    BY <1>1 DEF Work
  <2>2. u.kind = "pull" /\ Fits(u)
    BY <1>1 DEF Work
  <2> HIDE DEF u, v
  <2>3. QED
    BY <2>1, <2>2 DEF Fits, Edits
<1>6. Away'
  BY <1>1 DEF Away, outside
<1> HIDE DEF v
<1>7. proc' = [proc EXCEPT ![p] = v]
  BY DEF Goes, v
<1>8. QED
  BY <1>4, <1>5, <1>6, <1>7, MoveTyped

LEMMA InboundTyped ==
    ASSUME TypeInv, NEW p \in Procs, NEW ch \in proc[p].change, Inbound(p, ch)
    PROVE  TypeInv'
<1> DEFINE w == proc[p]
<1>1. w \in Work /\ Fits(w) /\ missed \in BOOLEAN /\ missed' = missed
  BY DEF TypeInv, Held, Away, Inbound
<1>2. w.kind = "pull" /\ w.pc # "next" /\ w.case \in Cases /\ ch \in Change
  BY <1>1 DEF Fits, Work
<1>3. \A x \in w.change : x = ch
  BY <1>1 DEF Fits
<1>4. RowOf(p) \in Row /\ TimelineOf(p) \in Timeline
  BY <1>2 DEF TypeInv, Rows, RowOf, TimelineOf
<1>5. w.now \in Row /\ w.seq \in Nat /\ w.now.state \in States
  BY <1>1 DEF Work, Row
<1>6. \A i \in 1 .. 4 : LET v == [w EXCEPT !.pc = Part(ch, w.row, i)] IN v \in Work /\ Fits(v)
  BY NextPartTyped
<1>7. \A row \in Row, t \in Timeline, v \in Work :
         Fits(v) /\ Write(p, row, t, v) => TypeInv'
  BY <1>1, <1>2, WriteTyped
<1>8. ASSUME NEW pc \in {"assigning", "moving", "noting"},
             pc = "assigning" => ch.owner \in Owners \cup {NoOne},
             pc = "moving" => ch.state \in States
      PROVE  Fits([w EXCEPT !.pc = pc])
  <2> DEFINE v == [w EXCEPT !.pc = pc]
  <2>1. v.pc = pc /\ v.kind = "pull" /\ v.pass = w.pass /\ v.case = w.case /\ v.change = w.change
    BY <1>1, <1>2 DEF Work
  <2>2. w.pass
    BY <1>1, <1>2 DEF Fits
  <2> HIDE DEF v
  <2>3. Fits(v)
    BY <1>2, <1>3, <1>8, <2>1, <2>2 DEF Fits, Edits
  <2>4. QED
    BY <2>3 DEF v
<1>9. ASSUME NEW pc \in PCs, Goes(p, pc), Fits([w EXCEPT !.pc = pc]),
             UNCHANGED <<case, timeline, outside, used>>
      PROVE  TypeInv'
  BY <1>1, <1>2, <1>9, GoesTyped
<1>10. \A i \in 1 .. 4 : Part(ch, w.row, i) \in PCs
  <2>1. w.row \in Row
    BY <1>1 DEF Work
  <2>2. QED
    BY <1>2, <2>1, PartTyped DEF PCs
<1>11. CASE InboundAssign(p, ch)
  <2>1. CASE w.pc = "assign"
    <3>1. ch.owner \in Owners \cup {NoOne}
      BY <1>1, <2>1 DEF Fits
    <3> DEFINE pc == IF MayAssign(RowOf(p)) THEN "assigning" ELSE Part(ch, w.row, 2)
    <3>2. pc \in PCs /\ Fits([w EXCEPT !.pc = pc])
      BY <1>6, <1>8, <1>10, <3>1 DEF PCs
    <3>3. Goes(p, pc) /\ UNCHANGED <<case, timeline, outside, used>>
      BY <1>11, <2>1 DEF InboundAssign
    <3> HIDE DEF pc
    <3>4. QED
      BY <1>9, <3>2, <3>3
  <2>2. CASE w.pc = "assigning"
    <3>1. ch.owner \in Owners \cup {NoOne}
      BY <1>1, <2>2 DEF Fits
    <3> DEFINE row == Assigned(RowOf(p), w.now, ch.owner)
               t == LoggedAssignment(TimelineOf(p), ch.owner)
               v == [w EXCEPT !.pc = Part(ch, w.row, 2)]
    <3>2. row \in Row /\ t \in Timeline
      BY <1>4, <1>5, <3>1, RowsTyped, TimelinesTyped
    <3>3. v \in Work /\ Fits(v)
      BY <1>6
    <3>4. Write(p, row, t, v)
      BY <1>11, <2>2 DEF InboundAssign
    <3> HIDE DEF row, t, v
    <3>5. QED
      BY <1>7, <3>2, <3>3, <3>4
  <2>3. QED
    BY <1>11, <2>1, <2>2 DEF InboundAssign
<1>12. CASE InboundMove(p, ch)
  <2>1. CASE w.pc = "move"
    <3>1. ch.state \in States
      BY <1>1, <2>1 DEF Fits
    <3> DEFINE pc == IF MayMove(RowOf(p), ch.state) THEN "moving" ELSE Part(ch, w.row, 3)
    <3>2. pc \in PCs /\ Fits([w EXCEPT !.pc = pc])
      BY <1>6, <1>8, <1>10, <3>1 DEF PCs
    <3>3. Goes(p, pc) /\ UNCHANGED <<case, timeline, outside, used>>
      BY <1>12, <2>1 DEF InboundMove
    <3> HIDE DEF pc
    <3>4. QED
      BY <1>9, <3>2, <3>3
  <2>2. CASE w.pc = "moving"
    <3>1. ch.state \in States
      BY <1>1, <2>2 DEF Fits
    <3> DEFINE row == Moved(RowOf(p), w.now, ch.state)
               t == LoggedMove(TimelineOf(p), w.now.state, ch.state)
               v == [w EXCEPT !.pc = Part(ch, w.row, 3)]
    <3>2. row \in Row /\ t \in Timeline
      BY <1>4, <1>5, <3>1, RowsTyped, TimelinesTyped
    <3>3. v \in Work /\ Fits(v)
      BY <1>6
    <3>4. Write(p, row, t, v)
      BY <1>12, <2>2 DEF InboundMove
    <3> HIDE DEF row, t, v
    <3>5. QED
      BY <1>7, <3>2, <3>3, <3>4
  <2>3. QED
    BY <1>12, <2>1, <2>2 DEF InboundMove
<1>13. CASE InboundNote(p, ch)
  <2>1. CASE w.pc = "note"
    <3>1. Fits([w EXCEPT !.pc = "noting"])
      BY <1>8
    <3>2. QED
      BY <1>9, <1>13, <2>1, <3>1 DEF InboundNote, PCs
  <2>2. CASE w.pc = "noting"
    BY <1>4, <1>5, <1>6, <1>7, <1>13, <2>2, TimelinesTyped DEF InboundNote
  <2>3. QED
    BY <1>13, <2>1, <2>2 DEF InboundNote
<1>14. CASE InboundRecord(p)
  BY <1>2, <1>4, <1>7, <1>14, LeftTyped, TimelinesTyped DEF InboundRecord
<1>15. QED
  BY <1>11, <1>12, <1>13, <1>14 DEF Inbound

LEMMA OutsideTyped == ASSUME TypeInv, Outside \/ Crash PROVE TypeInv'
<1>1. Away /\ Rows
  BY DEF TypeInv
<1>2. ASSUME NEW c \in Cases, Echo(c) PROVE TypeInv'
  <2>1. ticket[c] \in Ticket
    BY <1>1 DEF Away
  <2>2. TicketAsRead(c) \in Change
    BY <2>1 DEF TicketAsRead, Change, Ticket
  <2>3. Away'
    BY <1>1, <1>2, <2>2 DEF Echo, Heard, Away
  <2>4. QED
    BY <1>1, <1>2, <2>3 DEF Echo, TypeInv, Held, Rows
<1>3. ASSUME NEW c \in Cases, NEW edit \in OutsideEdits, PersonEdits(c, edit) PROVE TypeInv'
  <2>1. ticket[c] \in Ticket
    BY <1>1 DEF Away
  <2>2. /\ edit.state \in States \cup {Unsaid, "unmapped"}
        /\ edit.owner \in Owners \cup {NoOne, Unsaid} /\ edit.note \in BOOLEAN
    BY OutsideAssumption
  <2>3. inbox' \subseteq Change
    <3> DEFINE n == IF Stamped THEN ticket[c].rev ELSE 0
               new == [case |-> c, state |-> edit.state, owner |-> edit.owner, note |-> edit.note,
                       rev |-> n, ours |-> FALSE]
    <3>1. n \in Nat
      BY <2>1 DEF Ticket
    <3>2. inbox' = inbox \/ inbox' = inbox \cup {new}
      BY <1>3 DEF PersonEdits
    <3> HIDE DEF n
    <3>3. new \in Change
      BY <2>2, <3>1 DEF Change
    <3> HIDE DEF new
    <3>4. QED
      BY <1>1, <3>2, <3>3 DEF Away
  <2>4. ticket' \in [Cases -> Ticket]
    <3>1. [rev |-> IF Stamped THEN ticket[c].rev ELSE 0,
           state |-> IF edit.state \in States THEN edit.state ELSE ticket[c].state,
           owner |-> IF edit.owner = Unsaid THEN ticket[c].owner ELSE edit.owner,
           touched |-> TRUE] \in Ticket
      BY <2>1, <2>2 DEF Ticket
    <3>2. QED
      BY <1>1, <1>3, <3>1 DEF PersonEdits, Away
  <2>5. Away'
    BY <1>1, <1>3, <2>3, <2>4 DEF PersonEdits, Heard, Away
  <2>6. QED
    BY <1>1, <1>3, <2>5 DEF PersonEdits, TypeInv, Held, Rows
<1>4. CASE Crash
  <2>1. Held'
    BY <1>4, NoWorkTyped DEF Crash, Held
  <2>2. Away' /\ Rows'
    BY <1>1, <1>4 DEF Crash, Away, Rows, outside
  <2>3. QED
    BY <2>1, <2>2 DEF TypeInv
<1>5. QED
  BY <1>2, <1>3, <1>4 DEF Outside

LEMMA TypeStep == ASSUME TypeInv, [Next]_vars PROVE TypeInv'
<1>1. CASE UNCHANGED vars
  BY <1>1 DEF vars, outside, TypeInv, Rows, Held, Away
<1>2. ASSUME NEW p \in Procs, Begin(p) \/ PassStart(p) \/ Proceed(p) PROVE TypeInv'
  BY <1>2, BeginTyped, RequestWriteTyped, PushTyped, PushWriteTyped, PassTyped, ApplyTyped,
     InboundTyped DEF Proceed
<1>3. QED
  BY <1>1, <1>2, OutsideTyped DEF Next

\* The variables stay in their domains, whatever overlaps.
THEOREM TypeCorrect == Spec => []TypeOK
<1>1. TypeInv => TypeOK
  <2> SUFFICES ASSUME TypeInv PROVE TypeOK
    OBVIOUS
  <2>1. ASSUME NEW p \in Procs
        PROVE  LET w == proc[p] IN
               w \in [kind : AllKinds \cup {"none"}, pc : PCs, case : Cases \cup {0}, row : Row,
                     now : Row, want : {w.want}, seq : Nat, pass : BOOLEAN, todo : SUBSET Cases,
                     news : SUBSET Change, change : SUBSET Change]
    BY DEF TypeInv, Held, Work
  <2>2. \A p \in Procs : Fits(proc[p])
    BY DEF TypeInv, Held
  <2>3. DOMAIN proc = Procs
    BY DEF TypeInv, Held
  <2>4. QED
    BY <2>1, <2>2, <2>3 DEF TypeInv, TypeOK, Rows, Away, Fits
<1>2. Init => TypeInv
  BY TypeInit
<1>3. TypeInv /\ [Next]_vars => TypeInv'
  BY TypeStep
<1>4. QED
  BY <1>1, <1>2, <1>3, PTL DEF Spec

-----------------------------------------------------------------------------
(* A case and its timeline, worked in turn                                 *)

\* Two readings of a row, but for what pushes write.
Same(r, s) == /\ r.there = s.there /\ r.state = s.state /\ r.owner = s.owner
              /\ r.severity = s.severity /\ r.priority = s.priority
              /\ r.tier = s.tier /\ r.closed = s.closed
Sound(r) == /\ r.closed <=> r.state = "CLOSED"
            /\ ~r.there => r.state = "NEW" /\ r.owner = NoOne /\ r.rev = 0 /\ ~r.ref
Tells(t, r) == ~t.flawed /\ t.told = r.state
\* What FollowsWhitelist asks of a row before and after.
Follows(r, s) ==
    /\ r.there => s.there /\ s.state \in {r.state} \cup Transitions[r.state]
    /\ s.closed <=> s.state = "CLOSED"
    /\ r.owner # NoOne => s.priority = r.priority
Legal(r, s) == Follows(r, s) /\ Sound(s)

LEMMA Unchanged == ASSUME NEW r, Sound(r) PROVE Legal(r, r)
  BY DEF Sound, Legal, Follows

\* The operations, on a row that still is as it was read.
LEMMA AssignedLegal ==
    ASSUME NEW r \in Row, NEW read \in Row, NEW t \in Timeline, NEW owner \in Owners \cup {NoOne},
           Same(read, r), Sound(r), Tells(t, r), MayAssign(read)
    PROVE  Legal(r, Assigned(r, read, owner)) /\ Tells(LoggedAssignment(t, owner), Assigned(r, read, owner))
<1> DEFINE s == Assigned(r, read, owner)
<1>1. /\ s.state = IF owner # NoOne /\ r.state = "NEW" THEN "ASSIGNED" ELSE r.state
      /\ s.there = r.there /\ s.closed = r.closed /\ s.priority = r.priority
  BY DEF Assigned, Row, Same
<1>2. r.there
  BY DEF Same, MayAssign
<1>3. "ASSIGNED" \in Transitions["NEW"]
  BY DEF Transitions, States
<1>4. Legal(r, s)
  BY <1>1, <1>2, <1>3 DEF Legal, Follows, Sound
<1>5. Tells(LoggedAssignment(t, owner), s)
  BY <1>1 DEF Tells, LoggedAssignment, Logged, Timeline
<1>6. QED
  BY <1>4, <1>5

LEMMA MovedLegal ==
    ASSUME NEW r \in Row, NEW read \in Row, NEW t \in Timeline, NEW to \in States,
           Same(read, r), Sound(r), Tells(t, r), MayMove(read, to)
    PROVE  Legal(r, Moved(r, read, to)) /\ Tells(LoggedMove(t, read.state, to), Moved(r, read, to))
<1> DEFINE s == Moved(r, read, to)
<1>1. /\ s.state = to /\ s.there = r.there /\ s.priority = r.priority
      /\ s.closed = IF to = "CLOSED" THEN TRUE ELSE IF r.state = "CLOSED" THEN FALSE ELSE r.closed
  BY DEF Moved, Row, Same
<1>2. r.there /\ to \in Transitions[r.state]
  BY DEF Same, MayMove
<1>3. Legal(r, s)
  BY <1>1, <1>2 DEF Legal, Follows, Sound
<1>4. Tells(LoggedMove(t, read.state, to), s)
  BY <1>1 DEF Tells, LoggedMove, Logged, Timeline, Same
<1>5. QED
  BY <1>3, <1>4

LEMMA RaisedLegal ==
    ASSUME NEW r \in Row, NEW read \in Row, NEW t \in Timeline, NEW tier \in 1 .. MaxTier,
           Same(read, r), Sound(r), Tells(t, r), MayRaise(read, tier)
    PROVE  Legal(r, Raised(r, read, tier)) /\ Tells(LoggedRise(t), Raised(r, read, tier))
<1> DEFINE s == Raised(r, read, tier)
<1>1. /\ s.state = IF "ESCALATED" \in Transitions[r.state] THEN "ESCALATED" ELSE r.state
      /\ s.there = r.there /\ s.closed = r.closed /\ s.priority = r.priority
  BY DEF Raised, Row, Same
<1>2. r.there /\ r.state # "CLOSED"
  BY DEF Same, MayRaise
<1>3. Legal(r, s)
  BY <1>1, <1>2 DEF Legal, Follows, Sound
<1>4. Tells(LoggedRise(t), s)
  BY <1>1 DEF Tells, LoggedRise, Logged, Timeline
<1>5. QED
  BY <1>3, <1>4

LEMMA RenewedLegal ==
    ASSUME NEW r \in Row, NEW read \in Row, NEW t \in Timeline, NEW severity \in Severities,
           Same(read, r), Sound(r), Tells(t, r), read.there
    PROVE  Legal(r, Renewed(r, read, severity)) /\ Tells(t, Renewed(r, read, severity))
<1> DEFINE s == Renewed(r, read, severity)
<1>1. /\ s.state = r.state /\ s.there = r.there /\ s.closed = r.closed /\ r.there
      /\ r.owner # NoOne => s.priority = r.priority
  BY DEF Renewed, Row, Same
<1>2. QED
  BY <1>1 DEF Legal, Follows, Sound, Tells

LEMMA OpenedLegal ==
    ASSUME NEW r \in Row, NEW t \in Timeline, NEW severity \in Severities,
           Sound(r), Tells(t, r), ~r.there
    PROVE  Legal(r, Opened(severity)) /\ Tells(Logged(t), Opened(severity))
  BY DEF Opened, Legal, Follows, Sound, Tells, Logged, Timeline

LEMMA PushedLegal ==
    ASSUME NEW r \in Row, NEW read \in Row, Sound(r), r.there
    PROVE  /\ Legal(r, Pushed(r, read)) /\ Same(Pushed(r, read), r)
           /\ Legal(r, [r EXCEPT !.status = "ERROR"]) /\ Same([r EXCEPT !.status = "ERROR"], r)
<1>1. Same(Pushed(r, read), r) /\ Same([r EXCEPT !.status = "ERROR"], r)
  BY DEF Pushed, Same, Row
<1>2. QED
  BY <1>1 DEF Same, Legal, Follows, Sound

LEMMA LoggedTells ==
    ASSUME NEW t \in Timeline, NEW r, Tells(t, r)
    PROVE  /\ Tells(Logged(t), r)
           /\ \A seq \in Nat : seq > t.top => Tells(LoggedAs(t, seq), r)
  BY DEF Tells, Logged, LoggedAs, Timeline

-----------------------------------------------------------------------------
(* The inductive invariant                                                 *)

Alone == \A p, q \in Procs : p # q /\ proc[p].pc # "idle" /\ proc[q].pc # "idle"
             => {proc[p].kind, proc[q].kind} \in Overlapping

\* What a coroutine has read and checked still stands, and the number it will
\* give to a row of the timeline is free.
Stands(w, rows, lines) ==
    /\ w.kind \in Edits \cup {"analyse"} \/ w.pc \in {"assigning", "moving"}
         => Same(w.now, rows[w.case])
    /\ w.kind = "assign" \/ w.pc = "assigning" => MayAssign(w.now)
    /\ w.kind = "state" => MayMove(w.now, w.want)
    /\ w.pc = "moving" => \A ch \in w.change : MayMove(w.now, ch.state)
    /\ w.kind = "escalate" => MayRaise(w.now, w.want)
    /\ w.kind = "note" \/ w.pc = "noting" => w.seq > lines[w.case].top
    /\ w.kind = "push" => \A c \in w.todo : rows[c].there
    /\ w.kind = "push" /\ w.pc # "next" => rows[w.case].there

StoryInv ==
    /\ Alone
    /\ \A c \in Cases : Tells(timeline[c], case[c]) /\ Sound(case[c])
    /\ \A p \in Procs : Stands(proc[p], case, timeline)

AllFollow == \A c \in Cases : Follows(case[c], case'[c])

LEMMA StoryInit == ASSUME Init PROVE StoryInv
<1>1. \A p \in Procs : proc[p] = NoWork
  BY DEF Init
<1>2. NoWork.pc = "idle" /\ NoWork.kind = "none"
  BY DEF NoWork
<1>3. Sound(NoCase) /\ Tells(NoTimeline, NoCase)
  BY DEF Sound, Tells, NoCase, Opened, NoTimeline
<1>4. \A c \in Cases : case[c] = NoCase /\ timeline[c] = NoTimeline
  BY DEF Init
<1>5. \A p \in Procs : Stands(proc[p], case, timeline)
  BY <1>1, <1>2 DEF Stands, Edits
<1>6. Alone
  BY <1>1, <1>2 DEF Alone
<1>7. QED
  BY <1>3, <1>4, <1>5, <1>6 DEF StoryInv

\* Of two at work, one pushes and the other changes a case.
LEMMA Pairs ==
    ASSUME InTurn, TypeInv, Alone, NEW p \in Procs, NEW q \in Procs, p # q,
           proc[p].pc # "idle", proc[q].pc # "idle"
    PROVE  \/ proc[p].kind = "push" /\ proc[q].kind \in Edits \cup {"analyse"}
           \/ proc[q].kind = "push" /\ proc[p].kind \in Edits \cup {"analyse"}
<1>1. PICK k \in Edits \cup {"analyse"} : {proc[p].kind, proc[q].kind} = {k, "push"}
  BY DEF InTurn, Alone
<1>2. k # "push"
  BY DEF Edits
<1>3. QED
  BY <1>1, <1>2

LEMMA AloneStep ==
    ASSUME TypeInv, Alone, NEW p \in Procs, NEW v \in Work, proc' = [proc EXCEPT ![p] = v],
           \/ v.pc = "idle"
           \/ proc[p].pc # "idle" /\ v.kind = proc[p].kind
           \/ Free(p, v.kind)
    PROVE  Alone'
<1>1. \A q \in Procs : q # p => proc'[q] = proc[q]
  BY DEF TypeInv, Held
<1>2. proc'[p] = v
  BY DEF TypeInv, Held
<1>3. ASSUME NEW q \in Procs, q # p, proc'[q].pc # "idle", v.pc # "idle"
      PROVE  {v.kind, proc'[q].kind} \in Overlapping
  BY <1>1, <1>3 DEF Alone, Free, Busy
<1>4. SUFFICES ASSUME NEW q \in Procs, NEW r \in Procs, q # r,
                      proc'[q].pc # "idle", proc'[r].pc # "idle"
               PROVE  {proc'[q].kind, proc'[r].kind} \in Overlapping
  BY DEF Alone
<1>5. CASE q = p
  BY <1>2, <1>3, <1>4, <1>5
<1>6. CASE r = p
  <2>1. {proc'[q].kind, proc'[r].kind} = {proc'[r].kind, proc'[q].kind}
    OBVIOUS
  <2>2. QED
    BY <1>2, <1>3, <1>4, <1>6, <2>1
<1>7. CASE q # p /\ r # p
  BY <1>1, <1>4, <1>7 DEF Alone
<1>8. QED
  BY <1>5, <1>6, <1>7

\* A step that writes nothing here.
LEMMA QuietStep ==
    ASSUME TypeInv, StoryInv, NEW p \in Procs, NEW v \in Work, proc' = [proc EXCEPT ![p] = v],
           UNCHANGED <<case, timeline>>, Stands(v, case, timeline),
           \/ v.pc = "idle"
           \/ proc[p].pc # "idle" /\ v.kind = proc[p].kind
           \/ Free(p, v.kind)
    PROVE  StoryInv' /\ AllFollow
<1>1. Alone'
  BY AloneStep DEF StoryInv
<1>2. ASSUME NEW q \in Procs PROVE Stands(proc'[q], case', timeline')
  <2>1. proc'[q] = v \/ proc'[q] = proc[q]
    BY DEF TypeInv, Held
  <2>2. Stands(proc[q], case, timeline)
    BY DEF StoryInv
  <2>3. QED
    BY <2>1, <2>2 DEF Stands
<1>3. AllFollow
  BY Unchanged DEF StoryInv, AllFollow, Legal
<1>4. QED
  BY <1>1, <1>2, <1>3 DEF StoryInv

\* A write that is legal, and that changes what others have read only if it is
\* the end of a push and they do not read what it writes.
LEMMA WriteStep ==
    ASSUME InTurn, TypeInv, StoryInv, NEW p \in Procs, proc[p].pc # "idle", proc[p].case \in Cases,
           NEW row \in Row, NEW t \in Timeline, NEW v \in Work, Write(p, row, t, v),
           Legal(case[proc[p].case], row), Tells(t, row),
           proc[p].kind = "push" => Same(row, case[proc[p].case]),
           v.pc = "idle" \/ v.kind = proc[p].kind,
           Stands(v, case', timeline')
    PROVE  StoryInv' /\ AllFollow
<1> DEFINE c == proc[p].case
<1>1. /\ case' = [case EXCEPT ![c] = row] /\ timeline' = [timeline EXCEPT ![c] = t]
      /\ proc' = [proc EXCEPT ![p] = v]
  BY DEF Write
<1>2. /\ \A d \in Cases : /\ case'[d] = IF d = c THEN row ELSE case[d]
                          /\ timeline'[d] = IF d = c THEN t ELSE timeline[d]
      /\ \A q \in Procs : proc'[q] = IF q = p THEN v ELSE proc[q]
  BY <1>1 DEF TypeInv, Rows, Held
<1>3. Alone'
  BY <1>1, AloneStep DEF StoryInv
<1>4. \A d \in Cases : Legal(case[d], case'[d])
  BY <1>2, Unchanged DEF StoryInv
<1>5. \A d \in Cases : Tells(timeline'[d], case'[d])
  BY <1>2 DEF StoryInv
<1>6. \A d \in Cases : case[d].there => case'[d].there
  BY <1>4 DEF Legal, Follows
<1>7. ASSUME NEW q \in Procs, q # p PROVE Stands(proc'[q], case', timeline')
  <2> DEFINE w == proc[q]
  <2>1. proc'[q] = w /\ w \in Work /\ Fits(w) /\ Stands(w, case, timeline)
    BY <1>2, <1>7 DEF TypeInv, Held, StoryInv
  <2>2. CASE w.pc = "idle"
    <3>1. w.kind = "none"
      BY <2>1, <2>2 DEF Fits, NoWork
    <3>2. QED
      BY <2>1, <2>2, <3>1 DEF Stands, Edits
  <2>3. CASE w.pc # "idle" /\ w.kind = "push"
    <3>1. w.pc \in {"write", "sent", "failed", "next"} /\ w.todo \subseteq Cases
          /\ (w.pc # "next" => w.case \in Cases)
      BY <2>1, <2>3 DEF Fits, Work
    <3>2. /\ \A d \in w.todo : case'[d].there
          /\ w.pc # "next" => case'[w.case].there
      BY <1>6, <2>1, <2>3, <3>1 DEF Stands
    <3>3. QED
      BY <2>1, <2>3, <3>1, <3>2 DEF Stands, Edits
  <2>4. CASE w.pc # "idle" /\ w.kind # "push"
    <3>1. proc[p].kind = "push" /\ w.kind \in Edits \cup {"analyse"}
      BY <1>7, <2>4, Pairs DEF StoryInv
    <3>2. w.pc = "write" /\ w.case \in Cases
      BY <2>1, <3>1 DEF Fits
    <3>3. Same(case'[w.case], case[w.case])
      BY <1>2, <3>1, <3>2 DEF Same
    <3>4. Same(w.now, case'[w.case])
      BY <2>1, <3>1, <3>3 DEF Stands, Same
    <3>5. QED
      BY <2>1, <2>4, <3>1, <3>2, <3>4 DEF Stands, Edits
  <2>5. QED
    BY <2>2, <2>3, <2>4
<1>8. \A q \in Procs : Stands(proc'[q], case', timeline')
  BY <1>2, <1>7
<1>9. QED
  BY <1>3, <1>4, <1>5, <1>8 DEF StoryInv, AllFollow, Legal

Begun(kind, c, want) ==
    [NoWork EXCEPT !.kind = kind, !.pc = "write", !.case = c, !.row = case[c], !.now = case[c],
                   !.want = want, !.seq = timeline[c].top + 1]

LEMMA StartsStory ==
    ASSUME TypeInv, StoryInv, NEW p \in Procs, NEW kind \in AllKinds \ {"pull"}, NEW c \in Cases,
           NEW want, want \in Owners \cup {NoOne, Unsaid} \cup States \cup Severities \cup Nat,
           Starts(p, kind, c, want),
           kind = "assign" => MayAssign(case[c]),
           kind = "state" => MayMove(case[c], want),
           kind = "escalate" => MayRaise(case[c], want),
           kind = "push" => case[c].there
    PROVE  StoryInv' /\ AllFollow
<1> DEFINE v == Begun(kind, c, want)
<1>1. case[c] \in Row /\ timeline[c].top \in Nat /\ timeline[c].top + 1 \in Nat
  BY DEF TypeInv, Rows, Timeline
<1>2. v \in Work
  BY <1>1, NoWorkTyped DEF Begun, Work, PCs, NoWork
<1>3. /\ v.kind = kind /\ v.pc = "write" /\ v.case = c /\ v.now = case[c]
      /\ v.want = want /\ v.seq = timeline[c].top + 1 /\ v.todo = {}
  BY DEF Begun, NoWork
<1>4. proc' = [proc EXCEPT ![p] = v] /\ Free(p, v.kind) /\ UNCHANGED <<case, timeline>>
  BY <1>3 DEF Starts, Begun
<1> HIDE DEF v
<1>5. Stands(v, case, timeline)
  BY <1>1, <1>3 DEF Stands, Same, AllKinds, Edits
<1>6. QED
  BY <1>2, <1>4, <1>5, QuietStep

LEMMA BeginStory ==
    ASSUME TypeInv, StoryInv, NEW p \in Procs, Begin(p) PROVE StoryInv' /\ AllFollow
<1>1. PICK c \in Cases :
        \/ \E owner \in Owners \cup {NoOne} : AssignRead(p, c, owner)
        \/ \E to \in States : StateRead(p, c, to)
        \/ \E tier \in 1 .. MaxTier : EscalateRead(p, c, tier)
        \/ NoteRead(p, c) \/ PushAsked(p, c)
        \/ \E severity \in Severities : AnalyseRead(p, c, severity)
  BY DEF Begin
<1> USE DEF AllKinds, Edits
<1>2. ASSUME NEW owner \in Owners \cup {NoOne}, AssignRead(p, c, owner)
      PROVE  StoryInv' /\ AllFollow
  BY <1>2, StartsStory DEF AssignRead
<1>3. ASSUME NEW to \in States, StateRead(p, c, to) PROVE StoryInv' /\ AllFollow
  BY <1>3, StartsStory DEF StateRead
<1>4. ASSUME NEW tier \in 1 .. MaxTier, EscalateRead(p, c, tier) PROVE StoryInv' /\ AllFollow
  <2>1. tier \in Nat
    BY Constants
  <2>2. QED
    BY <1>4, <2>1, StartsStory DEF EscalateRead
<1>5. CASE NoteRead(p, c)
  BY <1>5, StartsStory DEF NoteRead
<1>6. CASE PushAsked(p, c)
  BY <1>6, StartsStory DEF PushAsked
<1>7. ASSUME NEW severity \in Severities, AnalyseRead(p, c, severity)
      PROVE  StoryInv' /\ AllFollow
  BY <1>7, StartsStory DEF AnalyseRead
<1>8. QED
  BY <1>1, <1>2, <1>3, <1>4, <1>5, <1>6, <1>7

LEMMA RequestWriteStory ==
    ASSUME InTurn, TypeInv, StoryInv, NEW p \in Procs, RequestWrite(p)
    PROVE  StoryInv' /\ AllFollow
<1> DEFINE w == proc[p]
           r == case[w.case]
           t == timeline[w.case]
<1>1. w \in Work /\ Fits(w) /\ Stands(w, case, timeline)
  BY DEF TypeInv, Held, StoryInv
<1>2. w.pc = "write" /\ w.kind \notin {"pull", "push"}
  BY DEF RequestWrite, AssignWrite, StateWrite, EscalateWrite, NoteWrite, EnsureInsert,
         EnsureUpdate, AtWrite
<1>3. w.case \in Cases /\ w.now \in Row /\ w.seq \in Nat
  BY <1>1, <1>2 DEF Fits, Work
<1>4. r \in Row /\ t \in Timeline /\ Sound(r) /\ Tells(t, r)
  BY <1>3 DEF TypeInv, Rows, StoryInv
<1>5. RowOf(p) = r /\ TimelineOf(p) = t
  BY DEF RowOf, TimelineOf
<1>6. NoWork \in Work /\ NoWork.pc = "idle" /\ NoWork.kind = "none"
  BY NoWorkTyped DEF NoWork
<1>7. Stands(NoWork, case', timeline')
  BY <1>6 DEF Stands, Edits, NoWork
<1> HIDE DEF r, t
<1>8. \A row \in Row, u \in Timeline :
         Write(p, row, u, NoWork) /\ Legal(r, row) /\ Tells(u, row) => StoryInv' /\ AllFollow
  <2> SUFFICES ASSUME NEW row \in Row, NEW u \in Timeline, Write(p, row, u, NoWork),
                      Legal(r, row), Tells(u, row)
               PROVE  StoryInv' /\ AllFollow
    OBVIOUS
  <2>1. Legal(case[proc[p].case], row)
    BY DEF r
  <2>2. QED
    BY <1>2, <1>3, <1>6, <1>7, <2>1, WriteStep
<1>9. CASE AssignWrite(p)
  <2>1. w.want \in Owners \cup {NoOne} /\ Same(w.now, r) /\ MayAssign(w.now)
    BY <1>1, <1>9 DEF AssignWrite, AtWrite, Fits, Stands, Edits, r
  <2>2. /\ Legal(r, Assigned(r, w.now, w.want))
        /\ Tells(LoggedAssignment(t, w.want), Assigned(r, w.now, w.want))
    BY <1>3, <1>4, <2>1, AssignedLegal
  <2>3. Assigned(r, w.now, w.want) \in Row /\ LoggedAssignment(t, w.want) \in Timeline
    BY <1>3, <1>4, <2>1, RowsTyped, TimelinesTyped
  <2>4. QED
    BY <1>5, <1>8, <1>9, <2>2, <2>3 DEF AssignWrite
<1>10. CASE StateWrite(p)
  <2>1. w.want \in States /\ Same(w.now, r) /\ MayMove(w.now, w.want) /\ w.now.state \in States
    BY <1>1, <1>3, <1>10 DEF StateWrite, AtWrite, Fits, Stands, Edits, r, Row
  <2>2. /\ Legal(r, Moved(r, w.now, w.want))
        /\ Tells(LoggedMove(t, w.now.state, w.want), Moved(r, w.now, w.want))
    BY <1>3, <1>4, <2>1, MovedLegal
  <2>3. Moved(r, w.now, w.want) \in Row /\ LoggedMove(t, w.now.state, w.want) \in Timeline
    BY <1>3, <1>4, <2>1, RowsTyped, TimelinesTyped
  <2>4. QED
    BY <1>5, <1>8, <1>10, <2>2, <2>3 DEF StateWrite
<1>11. CASE EscalateWrite(p)
  <2>1. w.want \in 1 .. MaxTier /\ Same(w.now, r) /\ MayRaise(w.now, w.want)
    BY <1>1, <1>11 DEF EscalateWrite, AtWrite, Fits, Stands, Edits, r
  <2>2. Legal(r, Raised(r, w.now, w.want)) /\ Tells(LoggedRise(t), Raised(r, w.now, w.want))
    BY <1>3, <1>4, <2>1, RaisedLegal
  <2>3. Raised(r, w.now, w.want) \in Row /\ LoggedRise(t) \in Timeline
    BY <1>3, <1>4, <2>1, RowsTyped, TimelinesTyped
  <2>4. QED
    BY <1>5, <1>8, <1>11, <2>2, <2>3 DEF EscalateWrite
<1>12. CASE NoteWrite(p)
  <2>1. w.seq > t.top
    BY <1>1, <1>12 DEF NoteWrite, AtWrite, Stands, t
  <2>2. Legal(r, r) /\ Tells(LoggedAs(t, w.seq), r) /\ LoggedAs(t, w.seq) \in Timeline
    BY <1>3, <1>4, <2>1, Unchanged, LoggedTells, TimelinesTyped
  <2>3. QED
    BY <1>4, <1>5, <1>8, <1>12, <2>2 DEF NoteWrite
<1>13. CASE EnsureInsert(p)
  <2>1. w.want \in Severities /\ ~r.there
    BY <1>1, <1>13 DEF EnsureInsert, AtWrite, Fits, Stands, Same, r
  <2>2. Legal(r, Opened(w.want)) /\ Tells(Logged(t), Opened(w.want))
    BY <1>4, <2>1, OpenedLegal
  <2>3. Opened(w.want) \in Row /\ Logged(t) \in Timeline
    BY <1>4, <2>1, NoCaseTyped, TimelinesTyped
  <2>4. QED
    BY <1>5, <1>8, <1>13, <2>1, <2>2, <2>3 DEF EnsureInsert
<1>14. CASE EnsureUpdate(p)
  <2>1. w.want \in Severities /\ Same(w.now, r) /\ w.now.there
    BY <1>1, <1>14 DEF EnsureUpdate, AtWrite, Fits, Stands, r
  <2>2. Legal(r, Renewed(r, w.now, w.want)) /\ Tells(t, Renewed(r, w.now, w.want))
    BY <1>3, <1>4, <2>1, RenewedLegal
  <2>3. Renewed(r, w.now, w.want) \in Row
    BY <1>3, <1>4, <2>1, RowsTyped
  <2>4. QED
    BY <1>4, <1>5, <1>8, <1>14, <2>2, <2>3 DEF EnsureUpdate
<1>15. QED
  BY <1>9, <1>10, <1>11, <1>12, <1>13, <1>14 DEF RequestWrite

\* A pass between two things to do has read nothing that must stand.
LEMMA LeftStands ==
    ASSUME TypeInv, StoryInv, NEW p \in Procs, proc[p].kind \in {"push", "pull"}
    PROVE  /\ Left(p) \in Work
           /\ Left(p).pc = "idle" \/ Left(p).kind = proc[p].kind
           /\ (\A c \in Cases : case[c].there => case'[c].there) => Stands(Left(p), case', timeline')
<1> DEFINE w == proc[p]
           v == [w EXCEPT !.pc = "next", !.change = {}]
<1>1. w \in Work /\ Stands(w, case, timeline)
  BY DEF TypeInv, Held, StoryInv
<1>2. Left(p) \in Work
  BY LeftTyped
<1>3. CASE w.pass
  <2>1. Left(p) = v /\ v.pc = "next" /\ v.kind = w.kind /\ v.todo = w.todo /\ w.todo \subseteq Cases
    BY <1>1, <1>3 DEF Left, Work
  <2>2. w.kind = "push" => \A c \in w.todo : case[c].there
    BY <1>1 DEF Stands
  <2> HIDE DEF v
  <2>3. ASSUME \A c \in Cases : case[c].there => case'[c].there PROVE Stands(v, case', timeline')
    BY <2>1, <2>2, <2>3 DEF Stands, Edits
  <2>4. QED
    BY <1>2, <2>1, <2>3
<1>4. CASE ~w.pass
  <2>1. Left(p) = NoWork /\ NoWork.pc = "idle" /\ NoWork.kind = "none"
    BY <1>4 DEF Left, NoWork
  <2>2. Stands(NoWork, case', timeline')
    BY <2>1 DEF Stands, Edits, NoWork
  <2>3. QED
    BY <1>2, <2>1, <2>2
<1>5. QED
  BY <1>3, <1>4

LEMMA PushStory ==
    ASSUME InTurn, TypeInv, StoryInv, NEW p \in Procs, NEW c \in Cases,
           PushRead(p, c) \/ PushSent(p, c) \/ PushFailed(p, c)
    PROVE  StoryInv' /\ AllFollow
<1> DEFINE w == proc[p]
<1>1. w \in Work /\ Fits(w) /\ Stands(w, case, timeline) /\ case[c] \in Row
  BY DEF TypeInv, Held, StoryInv, Rows
<1>2. CASE PushRead(p, c)
  <2> DEFINE v == [w EXCEPT !.pc = "write", !.case = c, !.row = case[c], !.todo = @ \ {c}]
  <2>1. v \in Work /\ v.kind = "push" /\ v.pc = "write" /\ v.case = c /\ v.todo \subseteq w.todo
    BY <1>1, <1>2 DEF PushRead, Work, PCs
  <2>2. w.kind = "push" /\ w.pc = "next" /\ c \in w.todo
    BY <1>2 DEF PushRead
  <2>3. proc' = [proc EXCEPT ![p] = v] /\ UNCHANGED <<case, timeline>>
    BY <1>2 DEF PushRead
  <2> HIDE DEF v
  <2>4. Stands(v, case, timeline)
    BY <1>1, <2>1, <2>2 DEF Stands, Edits
  <2>5. QED
    BY <2>1, <2>2, <2>3, <2>4, QuietStep
<1>3. ASSUME NEW pc \in {"sent", "failed"}, AtWrite(p, "push"), UNCHANGED <<case, timeline>>,
             proc' = [proc EXCEPT ![p] = [proc[p] EXCEPT !.pc = pc]]
      PROVE  StoryInv' /\ AllFollow
  <2> DEFINE v == [w EXCEPT !.pc = pc]
  <2>1. v \in Work /\ v.kind = "push" /\ v.pc = pc /\ v.case = w.case /\ v.todo = w.todo
    BY <1>1, <1>3 DEF AtWrite, Work, PCs
  <2>2. w.kind = "push" /\ w.pc = "write"
    BY <1>3 DEF AtWrite
  <2>3. proc' = [proc EXCEPT ![p] = v]
    BY <1>3
  <2> HIDE DEF v
  <2>4. Stands(v, case, timeline)
    BY <1>1, <1>3, <2>1, <2>2 DEF Stands, Edits
  <2>5. QED
    BY <1>3, <2>1, <2>2, <2>3, <2>4, QuietStep
<1>4. CASE PushSent(p, c)
  BY <1>3, <1>4 DEF PushSent
<1>5. CASE PushFailed(p, c)
  BY <1>3, <1>5 DEF PushFailed
<1>6. QED
  BY <1>2, <1>4, <1>5

LEMMA PushWriteStory ==
    ASSUME InTurn, TypeInv, StoryInv, NEW p \in Procs, PushWrite(p)
    PROVE  StoryInv' /\ AllFollow
<1> DEFINE w == proc[p]
           r == case[w.case]
           t == timeline[w.case]
<1>1. w \in Work /\ Fits(w) /\ Stands(w, case, timeline) /\ w.pc \in {"sent", "failed"}
  BY DEF TypeInv, Held, StoryInv, PushWrite
<1>2. w.kind = "push" /\ w.case \in Cases /\ w.row \in Row
  BY <1>1 DEF Fits, Work, AllKinds, Edits
<1>3. r \in Row /\ t \in Timeline /\ Sound(r) /\ Tells(t, r) /\ r.there
  BY <1>1, <1>2 DEF TypeInv, Rows, StoryInv, Stands
<1>4. /\ Left(p) \in Work /\ (Left(p).pc = "idle" \/ Left(p).kind = w.kind)
      /\ (\A c \in Cases : case[c].there => case'[c].there) => Stands(Left(p), case', timeline')
  BY <1>2, LeftStands
<1>5. ASSUME NEW row \in Row, NEW u \in Timeline, Write(p, row, u, Left(p)),
             Legal(r, row), Same(row, r), Tells(u, row)
      PROVE  StoryInv' /\ AllFollow
  <2>1. \A c \in Cases : case[c].there => case'[c].there
    BY <1>2, <1>3, <1>5 DEF Write, TypeInv, Rows, Same
  <2>2. Stands(Left(p), case', timeline')
    BY <1>4, <2>1
  <2>3. w.pc # "idle"
    BY <1>1
  <2>4. QED
    BY <1>2, <1>4, <1>5, <2>2, <2>3, WriteStep
<1>6. /\ Legal(r, Pushed(r, w.row)) /\ Same(Pushed(r, w.row), r)
      /\ Legal(r, [r EXCEPT !.status = "ERROR"]) /\ Same([r EXCEPT !.status = "ERROR"], r)
  BY <1>2, <1>3, PushedLegal
<1>7. Pushed(r, w.row) \in Row /\ [r EXCEPT !.status = "ERROR"] \in Row /\ Logged(t) \in Timeline
  BY <1>2, <1>3, RowsTyped, TimelinesTyped
<1>8. Tells(Logged(t), Pushed(r, w.row)) /\ Tells(t, [r EXCEPT !.status = "ERROR"])
  BY <1>3, <1>6, LoggedTells DEF Tells, Same
<1>9. CASE w.pc = "sent"
  <2>1. Write(p, Pushed(r, w.row), Logged(t), Left(p))
    BY <1>9 DEF PushWrite
  <2>2. QED
    BY <1>5, <1>6, <1>7, <1>8, <2>1
<1>10. CASE w.pc = "failed"
  <2>1. Write(p, [r EXCEPT !.status = "ERROR"], t, Left(p))
    BY <1>10 DEF PushWrite
  <2>2. QED
    BY <1>3, <1>5, <1>6, <1>7, <1>8, <2>1
<1>11. QED
  BY <1>1, <1>9, <1>10

\* Between its operations a pass that pulls has read nothing that must stand.
Between == {"next", "assign", "move", "note", "record"}
LEMMA BetweenStands ==
    ASSUME NEW w \in Work, w.kind = "pull", w.pc \in Between, NEW rows, NEW lines
    PROVE  Stands(w, rows, lines)
  BY DEF Stands, Between, Edits

LEMMA PassStory ==
    ASSUME TypeInv, StoryInv, NEW p \in Procs, PassStart(p) \/ Pull(p) \/ PassEnd(p), TypeInv'
    PROVE  StoryInv' /\ AllFollow
<1> DEFINE w == proc[p]
<1>1. w \in Work /\ proc'[p] \in Work
  BY DEF TypeInv, Held
<1>2. CASE PassStart(p)
  <2> DEFINE v == [NoWork EXCEPT !.kind = "push", !.pc = "next", !.pass = TRUE,
                                 !.todo = FirstOf(Pending)]
  <2>1. v.kind = "push" /\ v.pc = "next" /\ v.todo \subseteq Pending
    BY DEF NoWork, FirstOf
  <2>2. proc' = [proc EXCEPT ![p] = v] /\ UNCHANGED <<case, timeline>> /\ Free(p, "push")
    BY <1>2 DEF PassStart
  <2> HIDE DEF v
  <2>3. v \in Work
    BY <1>1, <2>2 DEF TypeInv, Held
  <2>4. Stands(v, case, timeline)
    BY <2>1 DEF Stands, Edits, Pending
  <2>5. QED
    BY <2>1, <2>2, <2>3, <2>4, QuietStep
<1>3. CASE Pull(p)
  <2> DEFINE v == [w EXCEPT !.kind = "pull", !.news = News]
  <2>1. v.kind = "pull" /\ v.pc = "next"
    BY <1>1, <1>3 DEF Pull, Work
  <2>2. proc' = [proc EXCEPT ![p] = v] /\ UNCHANGED <<case, timeline>> /\ Free(p, "pull")
    BY <1>3 DEF Pull
  <2> HIDE DEF v
  <2>3. v \in Work
    BY <1>1, <2>2 DEF TypeInv, Held
  <2>4. Stands(v, case, timeline)
    BY <2>1, <2>3, BetweenStands DEF Between
  <2>5. QED
    BY <2>1, <2>2, <2>3, <2>4, QuietStep
<1>4. CASE PassEnd(p)
  <2>1. NoWork \in Work /\ NoWork.pc = "idle" /\ NoWork.kind = "none"
    BY NoWorkTyped DEF NoWork
  <2>2. Stands(NoWork, case, timeline)
    BY <2>1 DEF Stands, Edits, NoWork
  <2>3. QED
    BY <1>4, <2>1, <2>2, QuietStep DEF PassEnd
<1>5. QED
  BY <1>2, <1>3, <1>4

LEMMA ApplyStory ==
    ASSUME TypeInv, StoryInv, NEW p \in Procs, NEW ch \in proc[p].news, Apply(p, ch), TypeInv'
    PROVE  StoryInv' /\ AllFollow
<1> DEFINE w == proc[p]
           row == case[ch.case]
           v == proc'[p]
<1>1. w \in Work /\ v \in Work /\ w.kind = "pull" /\ w.pc = "next"
  BY DEF TypeInv, Held, Apply
<1>2. ch \in Change /\ row \in Row
  BY <1>1 DEF Work, TypeInv, Rows, Change
<1>3. v.kind = "pull" /\ v.pc \in Between /\ proc' = [proc EXCEPT ![p] = v]
  <2>1. CASE row.ref /\ ~ IsEcho(ch, row)
    <3>1. Part(ch, row, 1) \in {"assign", "move", "note", "record"}
      BY <1>2, PartTyped
    <3>2. proc' = [proc EXCEPT ![p] = [w EXCEPT !.pc = Part(ch, row, 1), !.case = ch.case,
                                       !.row = row, !.news = @ \ {ch}, !.change = {ch}]]
      BY <2>1 DEF Apply
    <3>3. QED
      BY <1>1, <3>1, <3>2 DEF Work, Between, TypeInv, Held
  <2>2. CASE ~(row.ref /\ ~ IsEcho(ch, row))
    <3>1. proc' = [proc EXCEPT ![p] = [w EXCEPT !.news = @ \ {ch}]]
      BY <2>2 DEF Apply
    <3>2. QED
      BY <1>1, <3>1 DEF Work, Between, TypeInv, Held
  <2>3. QED
    BY <2>1, <2>2
<1>4. UNCHANGED <<case, timeline>>
  BY DEF Apply
<1>5. Stands(v, case, timeline)
  BY <1>1, <1>3, BetweenStands
<1>6. QED
  BY <1>1, <1>3, <1>4, <1>5, QuietStep

LEMMA InboundStory ==
    ASSUME InTurn, TypeInv, StoryInv, NEW p \in Procs, NEW ch \in proc[p].change, Inbound(p, ch)
    PROVE  StoryInv' /\ AllFollow
<1> DEFINE w == proc[p]
           r == case[w.case]
           t == timeline[w.case]
           After(i) == [w EXCEPT !.pc = Part(ch, w.row, i)]
           Again(pc) == [w EXCEPT !.pc = pc, !.now = r, !.seq = t.top + 1]
<1>1. w \in Work /\ Fits(w) /\ Stands(w, case, timeline)
  BY DEF TypeInv, Held, StoryInv
<1>2. /\ w.kind = "pull" /\ w.pc # "next" /\ w.pc # "idle" /\ w.case \in Cases
      /\ ch \in Change /\ w.row \in Row /\ \A x \in w.change : x = ch
  BY <1>1 DEF Fits, Work
<1>3. w.now \in Row /\ w.seq \in Nat /\ w.now.state \in States
  BY <1>1 DEF Work, Row
<1>4. r \in Row /\ t \in Timeline /\ t.top \in Nat /\ Sound(r) /\ Tells(t, r)
  BY <1>2 DEF TypeInv, Rows, StoryInv, Timeline
<1>5. RowOf(p) = r /\ TimelineOf(p) = t
  BY DEF RowOf, TimelineOf
<1>6. ASSUME NEW i \in 1 .. 4
      PROVE  After(i) \in Work /\ After(i).kind = "pull" /\ After(i).pc \in Between
  <2>1. Part(ch, w.row, i) \in {"assign", "move", "note", "record"}
    BY <1>2, PartTyped
  <2>2. QED
    BY <1>1, <1>2, <2>1 DEF Work, PCs, Between
<1>7. \A row \in Row, u \in Timeline, v \in Work :
         Write(p, row, u, v) /\ Legal(r, row) /\ Tells(u, row) /\ v.kind = "pull" /\ v.pc \in Between
           => StoryInv' /\ AllFollow
  <2> SUFFICES ASSUME NEW row \in Row, NEW u \in Timeline, NEW v \in Work, Write(p, row, u, v),
                      Legal(r, row), Tells(u, row), v.kind = "pull", v.pc \in Between
               PROVE  StoryInv' /\ AllFollow
    OBVIOUS
  <2>1. Stands(v, case', timeline')
    BY BetweenStands
  <2>2. w.kind # "push"
    BY <1>2
  <2>3. QED
    BY <1>2, <2>1, <2>2, WriteStep
<1>8. \A pc \in PCs :
         /\ Again(pc) \in Work /\ Again(pc).kind = "pull" /\ Again(pc).pc = pc
         /\ Again(pc).now = r /\ Again(pc).case = w.case /\ Again(pc).change = w.change
         /\ Again(pc).seq = t.top + 1
  <2> SUFFICES ASSUME NEW pc \in PCs
               PROVE  /\ Again(pc) \in Work /\ Again(pc).kind = "pull" /\ Again(pc).pc = pc
                      /\ Again(pc).now = r /\ Again(pc).case = w.case
                      /\ Again(pc).change = w.change /\ Again(pc).seq = t.top + 1
    OBVIOUS
  <2>1. t.top + 1 \in Nat
    BY <1>4
  <2> DEFINE n == t.top + 1
             q == r
  <2>2. n \in Nat /\ q \in Row
    BY <1>4, <2>1
  <2>3. Again(pc) = [w EXCEPT !.pc = pc, !.now = q, !.seq = n]
    OBVIOUS
  <2> HIDE DEF n, q
  <2>4. Again(pc) \in Work
    BY <1>1, <2>2, <2>3 DEF Work
  <2>5. /\ Again(pc).kind = w.kind /\ Again(pc).pc = pc /\ Again(pc).now = q
        /\ Again(pc).case = w.case /\ Again(pc).change = w.change /\ Again(pc).seq = n
    BY <1>1, <2>3 DEF Work
  <2>6. QED
    BY <1>2, <2>4, <2>5 DEF n, q
<1>9. ASSUME NEW pc \in Between \cup {"assigning", "moving", "noting"},
             Goes(p, pc), UNCHANGED <<case, timeline>>,
             pc = "assigning" => MayAssign(r),
             pc = "moving" => MayMove(r, ch.state)
      PROVE  StoryInv' /\ AllFollow
  <2> DEFINE v == Again(pc)
  <2>1. pc \in PCs
    BY DEF PCs, Between
  <2>2. /\ v \in Work /\ v.kind = "pull" /\ v.pc = pc /\ v.now = r /\ v.case = w.case
        /\ v.change = w.change /\ v.seq = t.top + 1
    BY <1>8, <2>1
  <2>3. proc' = [proc EXCEPT ![p] = v]
    BY <1>9 DEF Goes
  <2> HIDE DEF v
  <2>4. Stands(v, case, timeline)
    BY <1>2, <1>4, <1>9, <2>2 DEF Stands, Same, Edits, Between
  <2>5. QED
    BY <1>2, <1>9, <2>2, <2>3, <2>4, QuietStep
<1>10. \A i \in 1 .. 4 : Part(ch, w.row, i) \in Between
  BY <1>2, PartTyped DEF Between
<1> HIDE DEF r, t, After, Again
<1>11. CASE InboundAssign(p, ch)
  <2>1. CASE w.pc = "assign"
    <3> DEFINE pc == IF MayAssign(RowOf(p)) THEN "assigning" ELSE Part(ch, w.row, 2)
    <3>1. Goes(p, pc) /\ UNCHANGED <<case, timeline>>
      BY <1>11, <2>1 DEF InboundAssign
    <3>2. /\ pc \in Between \cup {"assigning"}
          /\ pc = "assigning" => MayAssign(r)
      BY <1>5, <1>10 DEF Between
    <3> HIDE DEF pc
    <3>3. QED
      BY <1>9, <3>1, <3>2 DEF Between
  <2>2. CASE w.pc = "assigning"
    <3>1. ch.owner \in Owners \cup {NoOne} /\ Same(w.now, r) /\ MayAssign(w.now)
      BY <1>1, <2>2 DEF Fits, Stands, r
    <3>2. /\ Legal(r, Assigned(r, w.now, ch.owner))
          /\ Tells(LoggedAssignment(t, ch.owner), Assigned(r, w.now, ch.owner))
      BY <1>3, <1>4, <3>1, AssignedLegal
    <3>3. Assigned(r, w.now, ch.owner) \in Row /\ LoggedAssignment(t, ch.owner) \in Timeline
      BY <1>3, <1>4, <3>1, RowsTyped, TimelinesTyped
    <3>4. Write(p, Assigned(r, w.now, ch.owner), LoggedAssignment(t, ch.owner), After(2))
      BY <1>5, <1>11, <2>2 DEF InboundAssign, After
    <3>5. QED
      BY <1>6, <1>7, <3>2, <3>3, <3>4
  <2>3. QED
    BY <1>11, <2>1, <2>2 DEF InboundAssign
<1>12. CASE InboundMove(p, ch)
  <2>1. CASE w.pc = "move"
    <3> DEFINE pc == IF MayMove(RowOf(p), ch.state) THEN "moving" ELSE Part(ch, w.row, 3)
    <3>1. Goes(p, pc) /\ UNCHANGED <<case, timeline>>
      BY <1>12, <2>1 DEF InboundMove
    <3>2. /\ pc \in Between \cup {"moving"}
          /\ pc = "moving" => MayMove(r, ch.state)
      BY <1>5, <1>10 DEF Between
    <3> HIDE DEF pc
    <3>3. QED
      BY <1>9, <3>1, <3>2 DEF Between
  <2>2. CASE w.pc = "moving"
    <3>1. ch.state \in States /\ Same(w.now, r) /\ MayMove(w.now, ch.state)
      BY <1>1, <2>2 DEF Fits, Stands, r
    <3>2. /\ Legal(r, Moved(r, w.now, ch.state))
          /\ Tells(LoggedMove(t, w.now.state, ch.state), Moved(r, w.now, ch.state))
      BY <1>3, <1>4, <3>1, MovedLegal
    <3>3. Moved(r, w.now, ch.state) \in Row /\ LoggedMove(t, w.now.state, ch.state) \in Timeline
      BY <1>3, <1>4, <3>1, RowsTyped, TimelinesTyped
    <3>4. Write(p, Moved(r, w.now, ch.state), LoggedMove(t, w.now.state, ch.state), After(3))
      BY <1>5, <1>12, <2>2 DEF InboundMove, After
    <3>5. QED
      BY <1>6, <1>7, <3>2, <3>3, <3>4
  <2>3. QED
    BY <1>12, <2>1, <2>2 DEF InboundMove
<1>13. CASE InboundNote(p, ch)
  <2>1. CASE w.pc = "note"
    BY <1>9, <1>13, <2>1 DEF InboundNote
  <2>2. CASE w.pc = "noting"
    <3>1. w.seq > t.top
      BY <1>1, <2>2 DEF Stands, t
    <3>2. Legal(r, r) /\ Tells(LoggedAs(t, w.seq), r) /\ LoggedAs(t, w.seq) \in Timeline
      BY <1>3, <1>4, <3>1, Unchanged, LoggedTells, TimelinesTyped
    <3>3. Write(p, r, LoggedAs(t, w.seq), After(4))
      BY <1>5, <1>13, <2>2 DEF InboundNote, After
    <3>4. QED
      BY <1>4, <1>6, <1>7, <3>2, <3>3
  <2>3. QED
    BY <1>13, <2>1, <2>2 DEF InboundNote
<1>14. CASE InboundRecord(p)
  <2>1. w.pass
    BY <1>1, <1>2 DEF Fits
  <2>2. Left(p) \in Work /\ Left(p).kind = "pull" /\ Left(p).pc \in Between
    BY <1>1, <1>2, <2>1 DEF Left, Work, PCs, Between
  <2>3. Legal(r, r) /\ Tells(Logged(t), r) /\ Logged(t) \in Timeline
    BY <1>4, Unchanged, LoggedTells, TimelinesTyped
  <2>4. QED
    BY <1>4, <1>5, <1>7, <1>14, <2>2, <2>3 DEF InboundRecord
<1>15. QED
  BY <1>11, <1>12, <1>13, <1>14 DEF Inbound

LEMMA OutsideStory == ASSUME StoryInv, Outside \/ Crash PROVE StoryInv' /\ AllFollow
<1>1. UNCHANGED <<case, timeline>>
  BY DEF Outside, Echo, PersonEdits, Crash, outside
<1>2. \A c \in Cases : Follows(case[c], case'[c])
  BY <1>1, Unchanged DEF StoryInv, Legal
<1>3. CASE Outside
  <2>1. proc' = proc
    BY <1>3 DEF Outside, Echo, PersonEdits
  <2>2. QED
    BY <1>1, <1>2, <2>1 DEF StoryInv, Alone, AllFollow
<1>4. CASE Crash
  <2>1. \A p \in Procs : proc'[p] = NoWork
    BY <1>4 DEF Crash
  <2>2. NoWork.pc = "idle" /\ NoWork.kind = "none"
    BY DEF NoWork
  <2>3. \A p \in Procs : Stands(proc'[p], case', timeline')
    BY <2>1, <2>2 DEF Stands, Edits
  <2>4. Alone'
    BY <2>1, <2>2 DEF Alone
  <2>5. QED
    BY <1>1, <1>2, <2>3, <2>4 DEF StoryInv, AllFollow
<1>5. QED
  BY <1>3, <1>4

LEMMA StoryStep ==
    ASSUME InTurn, TypeInv, StoryInv, [Next]_vars PROVE StoryInv' /\ AllFollow
<1>0. TypeInv'
  BY TypeStep
<1>1. CASE UNCHANGED vars
  <2>1. AllFollow
    BY <1>1, Unchanged DEF vars, StoryInv, AllFollow, Legal
  <2>2. QED
    BY <1>1, <2>1 DEF vars, StoryInv, Alone
<1>2. ASSUME NEW p \in Procs, Begin(p) \/ PassStart(p) \/ Proceed(p)
      PROVE  StoryInv' /\ AllFollow
  BY <1>0, <1>2, BeginStory, RequestWriteStory, PushStory, PushWriteStory, PassStory, ApplyStory,
     InboundStory DEF Proceed
<1>3. QED
  BY <1>1, <1>2, OutsideStory DEF Next

\* The inductive invariant, when what changes cases comes in turn.
THEOREM StoryCorrect == ASSUME InTurn PROVE Spec => [](TypeInv /\ StoryInv)
<1>1. Init => TypeInv /\ StoryInv
  BY TypeInit, StoryInit
<1>2. TypeInv /\ StoryInv /\ [Next]_vars => (TypeInv /\ StoryInv)'
  BY TypeStep, StoryStep
<1>3. QED
  BY <1>1, <1>2, PTL DEF Spec

\* The timeline of a case, read from its first row to its last, tells the state
\* the case is in (cases.py, _append_event).
THEOREM TimelinesTellStates == ASSUME InTurn PROVE Spec => []TimelineTellsState
<1>1. StoryInv => TimelineTellsState
  BY DEF StoryInv, TimelineTellsState, Tells
<1>2. QED
  BY <1>1, StoryCorrect, PTL

\* Cases move along the whitelist only (set_case_state, assign_case,
\* escalate_case, apply_inbound).
THEOREM CasesFollowWhitelist == ASSUME InTurn PROVE Spec => FollowsWhitelist
<1>1. TypeInv /\ StoryInv /\ [Next]_vars =>
        [\A c \in Cases :
          /\ case[c].there => /\ case'[c].there
                              /\ case'[c].state \in {case[c].state} \cup Transitions[case[c].state]
          /\ case'[c].closed <=> case'[c].state = "CLOSED"
          /\ case[c].owner # NoOne => case'[c].priority = case[c].priority]_case
  <2> SUFFICES ASSUME TypeInv, StoryInv, [Next]_vars PROVE AllFollow
    BY DEF AllFollow, Follows
  <2>1. QED
    BY StoryStep
<1>2. QED
  BY <1>1, StoryCorrect, PTL DEF Spec, FollowsWhitelist

-----------------------------------------------------------------------------
(* A directory of files: our own writing and other people's                *)

\* A push is about to write, or has written, the revision after the stored one.
Fresh(w, rows) ==
    w.kind = "push" /\ w.pc \in {"write", "sent", "failed"} => w.row.rev = rows[w.case].rev
Sends(w, c) == w.kind = "push" /\ w.pc = "sent" /\ w.case = c
Sent(c) == \E p \in Procs : Sends(proc[p], c)
\* The case has a ticket, or its first push is about to say so; revision n has
\* been stored, or the push that wrote it is about to store it.
Known(c) == case[c].ref \/ Sent(c)
Within(n, c) == n <= case[c].rev \/ (Sent(c) /\ n <= case[c].rev + 1)
\* A change that a pass has taken in, and one that waits.
Settled(ch, rows) ==
    /\ ch.ours => ch.rev # 0 /\ ch.rev <= rows[ch.case].rev
    /\ ~ch.ours => rows[ch.case].ref /\ (~Stamped => ch.rev = 0)
Waits(ch) ==
    /\ ch.ours => ch.rev # 0 /\ Within(ch.rev, ch.case)
    /\ ~ch.ours => Known(ch.case) /\ (~Stamped => ch.rev = 0)

Sync ==
    /\ \A p \in Procs : /\ Fresh(proc[p], case)
                        /\ \A ch \in proc[p].news : Settled(ch, case)
                        /\ \A ch \in proc[p].change : ~ch.ours
    /\ \A c \in Cases : /\ ~ticket[c].touched /\ Within(ticket[c].rev, c)
                        /\ ticket[c].rev > 0 => Known(c)
    /\ \A ch \in inbox : Waits(ch)
    /\ ~Stamped => ~missed
SyncInv == used.crashes = 0 => Sync

LEMMA SyncInit == ASSUME Init PROVE SyncInv
<1>1. \A p \in Procs : proc[p] = NoWork
  BY DEF Init
<1>2. NoWork.kind = "none" /\ NoWork.news = {} /\ NoWork.change = {}
  BY DEF NoWork
<1>3. \A c \in Cases : ticket[c].rev = 0 /\ ~ticket[c].touched /\ case[c].rev = 0
  BY DEF Init, NoCase, Opened
<1>4. QED
  BY <1>1, <1>2, <1>3 DEF SyncInv, Sync, Fresh, Within, Init

\* What a push is about to write is not lost while others are at work.
LEMMA Lasts ==
    ASSUME TypeInv, TypeInv', NEW c \in Cases,
           case'[c].rev >= case[c].rev, case[c].ref => case'[c].ref,
           Sent(c) => Sent(c)' \/ (case'[c].rev >= case[c].rev + 1 /\ case'[c].ref)
    PROVE  (Known(c) => Known(c)') /\ \A n \in Nat : Within(n, c) => Within(n, c)'
<1>1. case[c].rev \in Nat /\ case'[c].rev \in Nat
  BY DEF TypeInv, Rows, Row
<1>2. QED
  BY <1>1 DEF Known, Within

\* The link of a row to its ticket.
Linked(r, s) == s.rev = r.rev /\ s.ref = r.ref

\* A step of p that neither sends anything nor links a case to its ticket.
LEMMA SyncStep ==
    ASSUME TypeInv, TypeInv', Sync, NEW p \in Procs,
           \A q \in Procs : q # p => proc'[q] = proc[q],
           \A c \in Cases : Linked(case[c], case'[c]),
           proc[p].pc # "sent", Fresh(proc'[p], case),
           \A ch \in proc'[p].news : Settled(ch, case),
           \A ch \in proc'[p].change : ~ch.ours,
           ticket' = ticket, inbox' = inbox, ~Stamped => ~missed'
    PROVE  Sync'
<1>1. \A q \in Procs : proc'[q] \in Work /\ Fits(proc'[q])
  BY DEF TypeInv, Held
<1>2. \A q \in Procs : \A ch \in proc'[q].news : ch.case \in Cases
  BY <1>1 DEF Work, Change
<1>3. ASSUME NEW q \in Procs
      PROVE  /\ Fresh(proc'[q], case')
             /\ \A ch \in proc'[q].news : Settled(ch, case')
             /\ \A ch \in proc'[q].change : ~ch.ours
  <2>1. /\ Fresh(proc'[q], case)
        /\ \A ch \in proc'[q].news : Settled(ch, case)
        /\ \A ch \in proc'[q].change : ~ch.ours
    BY DEF Sync
  <2>2. proc'[q].kind = "push" /\ proc'[q].pc \in {"write", "sent", "failed"}
          => proc'[q].case \in Cases
    BY <1>1 DEF Fits
  <2>3. Fresh(proc'[q], case')
    BY <2>1, <2>2 DEF Fresh, Linked
  <2>4. \A ch \in proc'[q].news : Settled(ch, case')
    BY <1>2, <2>1 DEF Settled, Linked
  <2>5. QED
    BY <2>1, <2>3, <2>4
<1>4. ASSUME NEW c \in Cases
      PROVE  (Known(c) => Known(c)') /\ \A n \in Nat : Within(n, c) => Within(n, c)'
  <2>1. Sent(c) => Sent(c)'
    BY DEF Sent, Sends
  <2>2. case[c].rev \in Nat
    BY DEF TypeInv, Rows, Row
  <2>3. case'[c].rev >= case[c].rev /\ (case[c].ref => case'[c].ref)
    BY <2>2 DEF Linked
  <2>4. QED
    BY <2>1, <2>3, Lasts
<1>5. \A c \in Cases : ticket[c].rev \in Nat
  BY DEF TypeInv, Away, Ticket
<1>6. \A ch \in inbox : ch.case \in Cases /\ ch.rev \in Nat
  BY DEF TypeInv, Away, Change
<1>7. ASSUME NEW c \in Cases
      PROVE  /\ ~ticket'[c].touched /\ Within(ticket[c].rev, c)'
             /\ ticket'[c].rev > 0 => Known(c)'
  BY <1>4, <1>5, <1>7 DEF Sync, Within
<1>8. ASSUME NEW ch \in inbox PROVE Waits(ch)'
  BY <1>4, <1>6, <1>8 DEF Sync, Waits
<1>9. QED
  BY <1>3, <1>7, <1>8 DEF Sync

\* A write that links nothing.
LEMMA SyncWrite ==
    ASSUME TypeInv, TypeInv', Sync, NEW p \in Procs, proc[p].case \in Cases, NEW row, NEW t, NEW v,
           Write(p, row, t, v), Linked(case[proc[p].case], row), proc[p].pc # "sent",
           Fresh(v, case), \A ch \in v.news : Settled(ch, case), \A ch \in v.change : ~ch.ours,
           missed' = missed
    PROVE  Sync'
<1>1. proc'[p] = v /\ \A q \in Procs : q # p => proc'[q] = proc[q]
  BY DEF Write, TypeInv, Held
<1>2. \A c \in Cases : Linked(case[c], case'[c])
  BY DEF Write, TypeInv, Rows, Linked
<1>3. ticket' = ticket /\ inbox' = inbox
  BY DEF Write, outside
<1>4. QED
  BY <1>1, <1>2, <1>3, SyncStep DEF Sync

LEMMA RowsLinked ==
    ASSUME NEW r \in Row, NEW read
    PROVE  /\ \A owner : Linked(r, Assigned(r, read, owner))
           /\ \A to : Linked(r, Moved(r, read, to))
           /\ \A tier : Linked(r, Raised(r, read, tier))
           /\ \A severity : Linked(r, Renewed(r, read, severity))
           /\ Linked(r, [r EXCEPT !.status = "ERROR"])
  BY DEF Linked, Row, Assigned, Moved, Raised, Renewed

LEMMA BeginSync ==
    ASSUME TypeInv, TypeInv', Sync, NEW p \in Procs, Begin(p) PROVE Sync'
<1>1. PICK c, kind, want : c \in Cases /\ kind \in AllKinds /\ Starts(p, kind, c, want)
  BY DEF Begin, AssignRead, StateRead, EscalateRead, NoteRead, PushAsked, AnalyseRead, AllKinds,
         Edits
<1> DEFINE v == [NoWork EXCEPT !.kind = kind, !.pc = "write", !.case = c,
                               !.row = case[c], !.now = case[c], !.want = want,
                               !.seq = timeline[c].top + 1]
<1>2. proc'[p] = v /\ \A q \in Procs : q # p => proc'[q] = proc[q]
  BY <1>1 DEF Starts, TypeInv, Held
<1>3. v.case = c /\ v.row = case[c] /\ v.news = {} /\ v.change = {}
  BY DEF NoWork
<1>4. UNCHANGED <<case, ticket, inbox, missed>> /\ proc[p].pc = "idle"
  BY <1>1 DEF Starts, outside
<1> HIDE DEF v
<1>5. /\ Fresh(v, case) /\ (\A ch \in v.news : Settled(ch, case)) /\ (\A ch \in v.change : ~ch.ours)
      /\ \A d \in Cases : Linked(case[d], case'[d])
  BY <1>3, <1>4 DEF Fresh, Linked
<1>6. QED
  BY <1>2, <1>4, <1>5, SyncStep DEF Sync

LEMMA RequestWriteSync ==
    ASSUME TypeInv, TypeInv', StoryInv, Sync, NEW p \in Procs, RequestWrite(p) PROVE Sync'
<1> DEFINE w == proc[p]
           r == RowOf(p)
<1>1. w \in Work /\ Fits(w) /\ w.pc = "write"
  BY DEF TypeInv, Held, RequestWrite, AssignWrite, StateWrite, EscalateWrite, NoteWrite,
         EnsureInsert, EnsureUpdate, AtWrite
<1>2. w.case \in Cases
  BY <1>1 DEF Fits
<1>3. r \in Row /\ Sound(r) /\ r = case[w.case]
  BY <1>2 DEF TypeInv, Rows, StoryInv, RowOf
<1>4. NoWork.kind = "none" /\ NoWork.news = {} /\ NoWork.change = {}
  BY DEF NoWork
<1>5. ASSUME NEW row, NEW t, Write(p, row, t, NoWork), Linked(r, row), missed' = missed
      PROVE  Sync'
  BY <1>1, <1>2, <1>3, <1>4, <1>5, SyncWrite DEF Fresh
<1>6. Linked(r, r)
  BY DEF Linked
<1> HIDE DEF r
<1>7. ~r.there => \A s : Linked(r, Opened(s))
  <2>1. \A s : Opened(s).rev = 0 /\ Opened(s).ref = FALSE
    BY DEF Opened
  <2>2. r.ref \in BOOLEAN
    BY <1>3 DEF Row
  <2>3. QED
    BY <1>3, <2>1, <2>2 DEF Sound, Linked
<1>8. CASE AssignWrite(p)
  BY <1>3, <1>5, <1>8, RowsLinked DEF AssignWrite, r
<1>9. CASE StateWrite(p)
  BY <1>3, <1>5, <1>9, RowsLinked DEF StateWrite, r
<1>10. CASE EscalateWrite(p)
  BY <1>3, <1>5, <1>10, RowsLinked DEF EscalateWrite, r
<1>11. CASE NoteWrite(p)
  BY <1>5, <1>6, <1>11 DEF NoteWrite, r
<1>12. CASE EnsureInsert(p)
  BY <1>5, <1>6, <1>7, <1>12 DEF EnsureInsert, r
<1>13. CASE EnsureUpdate(p)
  BY <1>3, <1>5, <1>13, RowsLinked DEF EnsureUpdate, r
<1>14. QED
  BY <1>8, <1>9, <1>10, <1>11, <1>12, <1>13 DEF RequestWrite

LEMMA PushSync ==
    ASSUME TypeInv, TypeInv', Sync, NEW p \in Procs, NEW c \in Cases, Provider = "file",
           PushRead(p, c) \/ PushSent(p, c) \/ PushFailed(p, c)
    PROVE  Sync'
<1> DEFINE w == proc[p]
<1>1. w \in Work /\ Fits(w) /\ Fresh(w, case)
  BY DEF TypeInv, Held, Sync
<1>2. CASE PushRead(p, c)
  <2> DEFINE v == [w EXCEPT !.pc = "write", !.case = c, !.row = case[c], !.todo = @ \ {c}]
  <2>1. proc'[p] = v /\ \A q \in Procs : q # p => proc'[q] = proc[q]
    BY <1>2 DEF PushRead, TypeInv, Held
  <2>2. v.case = c /\ v.row = case[c] /\ v.news = w.news /\ v.change = w.change
    BY <1>1 DEF Work
  <2>3. UNCHANGED <<case, ticket, inbox, missed>> /\ w.pc = "next"
    BY <1>2 DEF PushRead, outside
  <2> HIDE DEF v
  <2>4. /\ Fresh(v, case) /\ (\A ch \in v.news : Settled(ch, case)) /\ (\A ch \in v.change : ~ch.ours)
        /\ \A d \in Cases : Linked(case[d], case'[d])
    BY <1>1, <2>2, <2>3 DEF Fresh, Linked, Sync
  <2>5. QED
    BY <2>1, <2>3, <2>4, SyncStep DEF Sync
<1>3. CASE PushFailed(p, c)
  <2> DEFINE v == [w EXCEPT !.pc = "failed"]
  <2>1. proc'[p] = v /\ \A q \in Procs : q # p => proc'[q] = proc[q]
    BY <1>3 DEF PushFailed, TypeInv, Held
  <2>2. v.kind = w.kind /\ v.case = w.case /\ v.row = w.row /\ v.news = w.news
        /\ v.change = w.change
    BY <1>1 DEF Work
  <2>3. UNCHANGED <<case, ticket, inbox, missed>> /\ w.pc = "write" /\ w.kind = "push"
    BY <1>3 DEF PushFailed, AtWrite
  <2> HIDE DEF v
  <2>4. /\ Fresh(v, case) /\ (\A ch \in v.news : Settled(ch, case)) /\ (\A ch \in v.change : ~ch.ours)
        /\ \A d \in Cases : Linked(case[d], case'[d])
    BY <1>1, <2>2, <2>3 DEF Fresh, Linked, Sync
  <2>5. QED
    BY <2>1, <2>3, <2>4, SyncStep DEF Sync
<1>4. CASE PushSent(p, c)
  <2> DEFINE v == [w EXCEPT !.pc = "sent"]
  <2>1. proc'[p] = v /\ \A q \in Procs : q # p => proc'[q] = proc[q]
    BY <1>4 DEF PushSent, TypeInv, Held
  <2>2. v.kind = w.kind /\ v.case = w.case /\ v.row = w.row /\ v.news = w.news
        /\ v.change = w.change /\ v.pc = "sent"
    BY <1>1 DEF Work
  <2>3. /\ UNCHANGED <<case, inbox, missed>> /\ w.pc = "write" /\ w.kind = "push" /\ w.case = c
        /\ ticket' = [ticket EXCEPT ![c] = Stamp(w.row, @)]
    BY <1>4 DEF PushSent, AtWrite
  <2>4. Sends(v, c) /\ w.row.rev = case[c].rev
    BY <1>1, <2>2, <2>3 DEF Sends, Fresh
  <2> HIDE DEF v
  <2>5. Sent(c)'
    BY <2>1, <2>4 DEF Sent
  <2>6. ASSUME NEW d \in Cases
        PROVE  (Known(d) => Known(d)') /\ \A n \in Nat : Within(n, d) => Within(n, d)'
    <3>1. Sent(d) => Sent(d)'
      BY <2>1, <2>3 DEF Sent, Sends
    <3>2. case'[d].rev >= case[d].rev /\ (case[d].ref => case'[d].ref)
      BY <2>3 DEF TypeInv, Rows, Row
    <3>3. QED
      BY <3>1, <3>2, Lasts
  <2>7. /\ ticket'[c].rev = case[c].rev + 1 /\ ticket'[c].touched = ticket[c].touched
        /\ \A d \in Cases : d # c => ticket'[d] = ticket[d]
    BY <2>3, <2>4 DEF TypeInv, Away, Ticket, Stamp
  <2>8. \A d \in Cases : ticket[d].rev \in Nat /\ case[d].rev \in Nat
    BY DEF TypeInv, Rows, Row, Away, Ticket
  <2>9. ASSUME NEW d \in Cases
        PROVE  /\ ~ticket'[d].touched /\ Within(ticket[d].rev, d)'
               /\ ticket'[d].rev > 0 => Known(d)'
    <3>1. CASE d = c
      BY <2>3, <2>5, <2>7, <2>8, <3>1 DEF Sync, Within, Known
    <3>2. CASE d # c
      BY <2>6, <2>7, <2>8, <3>2 DEF Sync, Within
    <3>3. QED
      BY <3>1, <3>2
  <2>10. ASSUME NEW ch \in inbox PROVE Waits(ch)'
    <3>1. ch.case \in Cases /\ ch.rev \in Nat
      BY DEF TypeInv, Away, Change
    <3>2. QED
      BY <2>6, <3>1 DEF Sync, Waits
  <2>11. ASSUME NEW q \in Procs
         PROVE  /\ Fresh(proc'[q], case)
                /\ \A ch \in proc'[q].news : Settled(ch, case)
                /\ \A ch \in proc'[q].change : ~ch.ours
    BY <2>1, <2>2, <2>3, <2>4 DEF Sync, Fresh
  <2>12. QED
    BY <2>3, <2>9, <2>10, <2>11 DEF Sync
<1>5. QED
  BY <1>2, <1>3, <1>4

\* What a finished push or change leaves asks for nothing more.
LEMMA LeftSync ==
    ASSUME TypeInv, Sync, NEW p \in Procs
    PROVE  /\ Fresh(Left(p), case)
           /\ \A ch \in Left(p).news : Settled(ch, case)
           /\ \A ch \in Left(p).change : ~ch.ours
<1> DEFINE v == [proc[p] EXCEPT !.pc = "next", !.change = {}]
<1>1. v.pc = "next" /\ v.news = proc[p].news /\ v.change = {}
  BY DEF TypeInv, Held, Work
<1>2. NoWork.kind = "none" /\ NoWork.news = {} /\ NoWork.change = {}
  BY DEF NoWork
<1>3. Left(p) = v \/ Left(p) = NoWork
  BY DEF Left
<1> HIDE DEF v
<1>4. QED
  BY <1>1, <1>2, <1>3 DEF Sync, Fresh

LEMMA PushWriteSync ==
    ASSUME InTurn, TypeInv, TypeInv', StoryInv, Sync, NEW p \in Procs, PushWrite(p)
    PROVE  Sync'
<1> DEFINE w == proc[p]
           c == w.case
           r == case[c]
<1>1. w \in Work /\ Fits(w) /\ w.pc \in {"sent", "failed"} /\ missed' = missed
  BY DEF TypeInv, Held, PushWrite
<1>2. w.kind = "push" /\ c \in Cases /\ w.row \in Row /\ r \in Row
  BY <1>1 DEF Fits, Work, AllKinds, Edits, TypeInv, Rows
<1>3. CASE w.pc = "failed"
  <2>1. Write(p, [r EXCEPT !.status = "ERROR"], timeline[c], Left(p))
    BY <1>3 DEF PushWrite
  <2>2. Linked(r, [r EXCEPT !.status = "ERROR"])
    BY <1>2, RowsLinked
  <2>3. QED
    BY <1>1, <1>2, <1>3, <2>1, <2>2, LeftSync, SyncWrite
<1>4. CASE w.pc = "sent"
  <2>1. Write(p, Pushed(r, w.row), Logged(timeline[c]), Left(p))
    BY <1>4 DEF PushWrite
  <2>2. proc'[p] = Left(p) /\ \A q \in Procs : q # p => proc'[q] = proc[q]
    BY <2>1 DEF Write, TypeInv, Held
  <2>3. w.row.rev = r.rev /\ r.rev \in Nat
    BY <1>2, <1>4 DEF Sync, Fresh, Row
  <2>4. case'[c].rev = r.rev + 1 /\ case'[c].ref = TRUE
    BY <1>2, <2>1, <2>3 DEF Write, TypeInv, Rows, Pushed, Row
  <2>5. \A d \in Cases : d # c => case'[d] = case[d]
    BY <2>1 DEF Write, TypeInv, Rows
  <2>6. ticket' = ticket /\ inbox' = inbox
    BY <2>1 DEF Write, outside
  <2> HIDE DEF r, c
  <2>7. \A d \in Cases : case'[d].rev >= case[d].rev /\ (case[d].ref => case'[d].ref)
    BY <2>3, <2>4, <2>5 DEF TypeInv, Rows, Row, r
  <2>8. ASSUME NEW d \in Cases
        PROVE  (Known(d) => Known(d)') /\ \A n \in Nat : Within(n, d) => Within(n, d)'
    <3>1. Sent(d) => Sent(d)' \/ (case'[d].rev >= case[d].rev + 1 /\ case'[d].ref)
      <4>1. CASE d = c
        BY <2>3, <2>4, <4>1 DEF r
      <4>2. CASE d # c
        <5>1. ~Sends(w, d)
          BY <4>2 DEF Sends, c
        <5>2. QED
          BY <2>2, <5>1 DEF Sent, Sends
      <4>3. QED
        BY <4>1, <4>2
    <3>2. QED
      BY <2>7, <3>1, Lasts
  <2>9. ASSUME NEW q \in Procs
        PROVE  /\ Fresh(proc'[q], case')
               /\ \A ch \in proc'[q].news : Settled(ch, case')
               /\ \A ch \in proc'[q].change : ~ch.ours
    <3>1. /\ \A ch \in proc'[q].news : Settled(ch, case)
          /\ \A ch \in proc'[q].change : ~ch.ours
      BY <2>2, LeftSync DEF Sync
    <3>2. \A ch \in proc'[q].news : ch.case \in Cases /\ ch.rev \in Nat
      BY DEF TypeInv, Held, Work, Change
    <3>3. \A d \in Cases : case[d].rev \in Nat /\ case'[d].rev \in Nat
      BY DEF TypeInv, Rows, Row
    <3>4. \A ch \in proc'[q].news : Settled(ch, case')
      BY <2>7, <3>1, <3>2, <3>3 DEF Settled
    <3>5. Fresh(proc'[q], case')
      <4>1. CASE q = p
        <5>1. Left(p).pc = "next" \/ Left(p).kind = "none"
          BY <1>1 DEF Left, NoWork, Work
        <5>2. QED
          BY <2>2, <4>1, <5>1 DEF Fresh
      <4>2. CASE q # p
        <5>1. proc[q].pc # "idle" => proc[q].kind # "push"
          BY <1>1, <1>2, <4>2, Pairs DEF StoryInv, Edits
        <5>2. QED
          BY <2>2, <4>2, <5>1 DEF Fresh
      <4>3. QED
        BY <4>1, <4>2
    <3>6. QED
      BY <3>1, <3>4, <3>5
  <2>10. \A d \in Cases : ticket[d].rev \in Nat
    BY DEF TypeInv, Away, Ticket
  <2>11. ASSUME NEW d \in Cases
         PROVE  /\ ~ticket'[d].touched /\ Within(ticket[d].rev, d)'
                /\ ticket'[d].rev > 0 => Known(d)'
    BY <2>6, <2>8, <2>10 DEF Sync, Within
  <2>12. ASSUME NEW ch \in inbox PROVE Waits(ch)'
    <3>1. ch.case \in Cases /\ ch.rev \in Nat
      BY DEF TypeInv, Away, Change
    <3>2. QED
      BY <2>8, <3>1 DEF Sync, Waits
  <2>13. QED
    BY <1>1, <2>6, <2>9, <2>11, <2>12 DEF Sync
<1>5. QED
  BY <1>1, <1>3, <1>4

LEMMA PassSync ==
    ASSUME InTurn, TypeInv, TypeInv', StoryInv, Sync, NEW p \in Procs, Provider = "file",
           PassStart(p) \/ Pull(p) \/ PassEnd(p)
    PROVE  Sync'
<1> DEFINE w == proc[p]
<1>1. w \in Work /\ Fits(w)
  BY DEF TypeInv, Held
<1>2. CASE PassStart(p)
  <2> DEFINE v == [NoWork EXCEPT !.kind = "push", !.pc = "next", !.pass = TRUE,
                                 !.todo = FirstOf(Pending)]
  <2>1. proc'[p] = v /\ \A q \in Procs : q # p => proc'[q] = proc[q]
    BY <1>2 DEF PassStart, TypeInv, Held
  <2>2. v.pc = "next" /\ v.news = {} /\ v.change = {}
    BY DEF NoWork
  <2>3. UNCHANGED <<case, ticket, inbox, missed>> /\ w.pc = "idle"
    BY <1>2 DEF PassStart, outside
  <2> HIDE DEF v
  <2>4. /\ Fresh(v, case) /\ \A d \in Cases : Linked(case[d], case'[d])
    BY <2>2, <2>3 DEF Fresh, Linked
  <2>5. QED
    BY <2>1, <2>2, <2>3, <2>4, SyncStep DEF Sync
<1>3. CASE PassEnd(p)
  <2>1. proc'[p] = NoWork /\ \A q \in Procs : q # p => proc'[q] = proc[q]
    BY <1>3 DEF PassEnd, TypeInv, Held
  <2>2. NoWork.kind = "none" /\ NoWork.news = {} /\ NoWork.change = {}
    BY DEF NoWork
  <2>3. UNCHANGED <<case, ticket, inbox, missed>> /\ w.pc = "next"
    BY <1>3 DEF PassEnd, outside
  <2>4. /\ Fresh(NoWork, case) /\ \A d \in Cases : Linked(case[d], case'[d])
    BY <2>2, <2>3 DEF Fresh, Linked
  <2>5. QED
    BY <2>1, <2>2, <2>3, <2>4, SyncStep DEF Sync
<1>4. CASE Pull(p)
  <2> DEFINE v == [w EXCEPT !.kind = "pull", !.news = News]
  <2>1. proc'[p] = v /\ \A q \in Procs : q # p => proc'[q] = proc[q]
    BY <1>4 DEF Pull, TypeInv, Held
  <2>2. v.kind = "pull" /\ v.pc = "next" /\ v.news = inbox /\ v.change = w.change
    BY <1>1, <1>4 DEF Work, Pull, News
  <2>3. /\ UNCHANGED <<case, missed>> /\ w.pc = "next" /\ inbox' = {} /\ Free(p, "pull")
        /\ ticket' = [c \in Cases |-> [ticket[c] EXCEPT !.touched = FALSE]]
    BY <1>4 DEF Pull
  <2> HIDE DEF v
  \* While a pass pulls, nothing is being pushed.
  <2>4. \A q \in Procs : q # p => proc[q].pc = "idle"
    <3> SUFFICES ASSUME NEW q \in Procs, q # p, proc[q].pc # "idle" PROVE FALSE
      OBVIOUS
    <3>1. PICK k \in Edits \cup {"analyse"} : {"pull", proc[q].kind} = {k, "push"}
      BY <2>3 DEF InTurn, Free, Busy
    <3>2. QED
      BY <3>1 DEF Edits
  <2>5. \A c \in Cases : ~Sent(c)
    BY <2>3, <2>4 DEF Sent, Sends
  <2>6. \A ch \in inbox : Settled(ch, case)
    <3>1. \A ch \in inbox : ch.case \in Cases
      BY DEF TypeInv, Away, Change
    <3>2. QED
      BY <2>5, <3>1 DEF Sync, Waits, Settled, Within, Known
  <2>7. ASSUME NEW q \in Procs
        PROVE  /\ Fresh(proc'[q], case)
               /\ \A ch \in proc'[q].news : Settled(ch, case)
               /\ \A ch \in proc'[q].change : ~ch.ours
    BY <2>1, <2>2, <2>6 DEF Sync, Fresh
  <2>8. ASSUME NEW c \in Cases
        PROVE  /\ ~ticket'[c].touched /\ Within(ticket[c].rev, c)'
               /\ ticket'[c].rev > 0 => Known(c)'
    <3>1. ticket'[c].touched = FALSE /\ ticket'[c].rev = ticket[c].rev
      BY <2>3 DEF TypeInv, Away, Ticket
    <3>2. QED
      BY <2>3, <2>5, <3>1 DEF Sync, Within, Known
  <2>9. QED
    BY <2>3, <2>7, <2>8 DEF Sync
<1>5. QED
  BY <1>2, <1>3, <1>4

LEMMA ApplySync ==
    ASSUME TypeInv, TypeInv', Sync, NEW p \in Procs, NEW ch \in proc[p].news, Apply(p, ch)
    PROVE  Sync'
<1> DEFINE w == proc[p]
           row == case[ch.case]
<1>1. w \in Work /\ w.kind = "pull" /\ w.pc = "next"
  BY DEF TypeInv, Held, Apply
<1>2. ch \in Change /\ Settled(ch, case)
  BY <1>1 DEF Work, Sync
<1>3. UNCHANGED <<case, ticket, inbox>>
  BY DEF Apply, outside
<1>4. CASE row.ref /\ ~IsEcho(ch, row)
  <2> DEFINE v == [w EXCEPT !.pc = Part(ch, row, 1), !.case = ch.case, !.row = row,
                            !.news = @ \ {ch}, !.change = {ch}]
  <2>1. proc'[p] = v /\ (\A q \in Procs : q # p => proc'[q] = proc[q]) /\ missed' = missed
    BY <1>4 DEF Apply, TypeInv, Held
  <2>2. v.kind = "pull" /\ v.news \subseteq w.news /\ v.change = {ch}
    BY <1>1 DEF Work
  <2> HIDE DEF v
  \* Our own writing quotes a revision that is stored.
  <2>3. ~ch.ours
    BY <1>2, <1>4 DEF Settled, IsEcho
  <2>4. /\ Fresh(v, case) /\ (\A x \in v.news : Settled(x, case)) /\ (\A x \in v.change : ~x.ours)
        /\ \A d \in Cases : Linked(case[d], case'[d])
    BY <1>3, <2>2, <2>3 DEF Sync, Fresh, Linked
  <2>5. QED
    BY <1>1, <1>3, <2>1, <2>4, SyncStep DEF Sync
<1>5. CASE ~(row.ref /\ ~IsEcho(ch, row))
  <2> DEFINE v == [w EXCEPT !.news = @ \ {ch}]
  <2>1. /\ proc'[p] = v /\ (\A q \in Procs : q # p => proc'[q] = proc[q])
        /\ missed' = (missed \/ ~ch.ours)
    BY <1>5 DEF Apply, TypeInv, Held
  <2>2. v.kind = "pull" /\ v.news \subseteq w.news /\ v.change = w.change
    BY <1>1 DEF Work
  <2> HIDE DEF v
  \* A person's change quotes none, and is of a case that has a ticket.
  <2>3. ~Stamped => ch.ours
    BY <1>2, <1>5 DEF Settled, IsEcho
  <2>4. /\ Fresh(v, case) /\ (\A x \in v.news : Settled(x, case)) /\ (\A x \in v.change : ~x.ours)
        /\ \A d \in Cases : Linked(case[d], case'[d])
    BY <1>3, <2>2 DEF Sync, Fresh, Linked
  <2>5. ~Stamped => ~missed'
    BY <2>1, <2>3 DEF Sync
  <2>6. QED
    BY <1>1, <1>3, <2>1, <2>4, <2>5, SyncStep
<1>6. QED
  BY <1>4, <1>5

LEMMA InboundSync ==
    ASSUME TypeInv, TypeInv', Sync, NEW p \in Procs, NEW ch \in proc[p].change, Inbound(p, ch)
    PROVE  Sync'
<1> DEFINE w == proc[p]
           r == RowOf(p)
<1>1. w \in Work /\ Fits(w) /\ w.kind = "pull" /\ missed' = missed
  BY DEF TypeInv, Held, Fits, Inbound
<1>2. w.pc \notin {"idle", "next", "sent"} /\ w.case \in Cases
  BY <1>1 DEF Fits
<1>3. r \in Row /\ r = case[w.case]
  BY <1>2 DEF TypeInv, Rows, RowOf
<1>4. ASSUME NEW v, v.kind = "pull", v.news = w.news, v.change = w.change
      PROVE  /\ Fresh(v, case) /\ (\A x \in v.news : Settled(x, case))
             /\ \A x \in v.change : ~x.ours
  BY <1>4 DEF Sync, Fresh
<1>5. ASSUME NEW pc
      PROVE  LET v == [w EXCEPT !.pc = pc] IN
             v.kind = "pull" /\ v.news = w.news /\ v.change = w.change
  BY <1>1 DEF Work
<1>6. ASSUME NEW pc, Goes(p, pc), UNCHANGED <<case, outside>> PROVE Sync'
  <2> DEFINE v == [w EXCEPT !.pc = pc, !.now = r, !.seq = TimelineOf(p).top + 1]
  <2>1. proc'[p] = v /\ \A q \in Procs : q # p => proc'[q] = proc[q]
    BY <1>6 DEF Goes, TypeInv, Held, RowOf, TimelineOf
  <2>2. v.kind = "pull" /\ v.news = w.news /\ v.change = w.change
    BY <1>1 DEF Work
  <2> HIDE DEF v
  <2>3. /\ Fresh(v, case) /\ (\A x \in v.news : Settled(x, case)) /\ (\A x \in v.change : ~x.ours)
        /\ \A d \in Cases : Linked(case[d], case'[d])
    BY <1>4, <1>6, <2>2 DEF Linked
  <2>4. QED
    BY <1>1, <1>2, <1>6, <2>1, <2>3, SyncStep DEF outside, Sync
<1>7. ASSUME NEW row, NEW t, NEW pc, Write(p, row, t, [w EXCEPT !.pc = pc]), Linked(r, row)
      PROVE  Sync'
  <2> DEFINE v == [w EXCEPT !.pc = pc]
  <2>1. v.kind = "pull" /\ v.news = w.news /\ v.change = w.change
    BY <1>5
  <2>2. Write(p, row, t, v)
    BY <1>7
  <2> HIDE DEF v
  <2>3. /\ Fresh(v, case) /\ (\A x \in v.news : Settled(x, case)) /\ (\A x \in v.change : ~x.ours)
    BY <1>4, <2>1
  <2>4. QED
    BY <1>1, <1>2, <1>3, <1>7, <2>2, <2>3, SyncWrite
<1>8. Linked(r, r)
  BY DEF Linked
<1> HIDE DEF r
<1>9. CASE InboundAssign(p, ch)
  <2>1. CASE w.pc = "assign"
    BY <1>6, <1>9, <2>1 DEF InboundAssign
  <2>2. CASE w.pc = "assigning"
    <3>1. Linked(r, Assigned(r, w.now, ch.owner))
      BY <1>3, RowsLinked
    <3>2. QED
      BY <1>7, <1>9, <2>2, <3>1 DEF InboundAssign, r
  <2>3. QED
    BY <1>9, <2>1, <2>2 DEF InboundAssign
<1>10. CASE InboundMove(p, ch)
  <2>1. CASE w.pc = "move"
    BY <1>6, <1>10, <2>1 DEF InboundMove
  <2>2. CASE w.pc = "moving"
    <3>1. Linked(r, Moved(r, w.now, ch.state))
      BY <1>3, RowsLinked
    <3>2. QED
      BY <1>7, <1>10, <2>2, <3>1 DEF InboundMove, r
  <2>3. QED
    BY <1>10, <2>1, <2>2 DEF InboundMove
<1>11. CASE InboundNote(p, ch)
  <2>1. CASE w.pc = "note"
    BY <1>6, <1>11, <2>1 DEF InboundNote
  <2>2. CASE w.pc = "noting"
    BY <1>7, <1>8, <1>11, <2>2 DEF InboundNote, r
  <2>3. QED
    BY <1>11, <2>1, <2>2 DEF InboundNote
<1>12. CASE InboundRecord(p)
  <2>1. Write(p, RowOf(p), Logged(TimelineOf(p)), Left(p))
    BY <1>12 DEF InboundRecord
  <2>2. QED
    BY <1>1, <1>2, <1>3, <1>8, <2>1, LeftSync, SyncWrite DEF r
<1>13. QED
  BY <1>9, <1>10, <1>11, <1>12 DEF Inbound

LEMMA OutsideSync ==
    ASSUME TypeInv, TypeInv', Sync, Provider = "file", Outside PROVE Sync'
<1>1. UNCHANGED <<case, proc, ticket, missed>>
  BY DEF Outside, Echo, PersonEdits
<1>2. \A c \in Cases : (Sent(c) <=> Sent(c)') /\ (Known(c) <=> Known(c)')
                       /\ \A n : Within(n, c) <=> Within(n, c)'
  BY <1>1 DEF Sent, Known, Within
<1>3. \A ch \in inbox : ch.case \in Cases
  BY DEF TypeInv, Away, Change
<1>4. PICK c \in Cases : Echo(c) \/ \E edit \in OutsideEdits : PersonEdits(c, edit)
  BY DEF Outside
<1>5. ticket[c].rev > 0 /\ ticket[c].rev \in Nat
  BY <1>4 DEF Echo, PersonEdits, TypeInv, Away, Ticket
<1>6. PICK ch : inbox' = inbox \cup {ch} /\ Waits(ch) /\ ch.case \in Cases
  <2>1. CASE Echo(c)
    <3> DEFINE ch == TicketAsRead(c)
    <3>1. ch.case = c /\ ch.rev = ticket[c].rev /\ ch.ours = TRUE
      BY DEF TicketAsRead, Sync
    <3>2. inbox' = inbox \cup {ch}
      BY <2>1 DEF Echo
    <3> HIDE DEF ch
    <3>3. Waits(ch)
      BY <1>5, <3>1 DEF Sync, Waits
    <3>4. QED
      BY <3>1, <3>2, <3>3
  <2>2. ASSUME NEW edit \in OutsideEdits, PersonEdits(c, edit)
        PROVE  \E ch : inbox' = inbox \cup {ch} /\ Waits(ch) /\ ch.case \in Cases
    <3> DEFINE ch == [case |-> c, state |-> edit.state, owner |-> edit.owner, note |-> edit.note,
                      rev |-> IF Stamped THEN ticket[c].rev ELSE 0, ours |-> FALSE]
    <3>1. ch.case = c /\ (~Stamped => ch.rev = 0) /\ ch.ours = FALSE
      OBVIOUS
    <3>2. inbox' = inbox \cup {ch}
      BY <2>2 DEF PersonEdits
    <3> HIDE DEF ch
    <3>3. Waits(ch)
      BY <1>5, <3>1 DEF Sync, Waits
    <3>4. QED
      BY <3>1, <3>2, <3>3
  <2>3. QED
    BY <1>4, <2>1, <2>2
<1>7. ASSUME NEW x \in inbox' PROVE Waits(x)'
  <2>1. Waits(x) /\ x.case \in Cases
    BY <1>3, <1>6, <1>7 DEF Sync
  <2>2. QED
    BY <1>2, <2>1 DEF Waits
<1>8. \A d \in Cases : /\ ~ticket'[d].touched /\ Within(ticket[d].rev, d)'
                       /\ ticket'[d].rev > 0 => Known(d)'
  BY <1>1, <1>2 DEF Sync
<1>9. QED
  BY <1>1, <1>7, <1>8 DEF Sync

LEMMA SyncKept ==
    ASSUME InTurn, Provider = "file", TypeInv, StoryInv, SyncInv, [Next]_vars PROVE SyncInv'
<1> SUFFICES ASSUME used'.crashes = 0 PROVE Sync'
  BY DEF SyncInv
<1>0. TypeInv'
  BY TypeStep
<1>1. used \in [requests : Nat, outside : Nat, outages : Nat, crashes : Nat]
  BY DEF TypeInv, Away
<1>2. CASE Crash
  BY <1>1, <1>2 DEF Crash
<1>3. CASE ~Crash
  <2>1. used.crashes = 0
    <3>1. CASE UNCHANGED vars
      BY <3>1 DEF vars
    <3>2. CASE used' = used
      BY <3>2
    <3>3. ASSUME NEW k \in {"requests", "outside", "outages"}, used' = [used EXCEPT ![k] = @ + 1]
          PROVE  used.crashes = 0
      BY <1>1, <3>3
    <3>4. CASE Next
      <4>1. CASE Outside
        BY <1>1, <4>1 DEF Outside, Echo, PersonEdits, Heard
      <4>2. ASSUME NEW p \in Procs, Begin(p) \/ PassStart(p) PROVE used.crashes = 0
        BY <1>1, <4>2 DEF Begin, PassStart, AssignRead, StateRead, EscalateRead, NoteRead,
                          PushAsked, AnalyseRead, Starts
      <4>3. ASSUME NEW p \in Procs, Proceed(p) PROVE used.crashes = 0
        <5>1. used' = used \/ used' = [used EXCEPT !.outages = @ + 1]
          BY <4>3 DEF Proceed, RequestWrite, AssignWrite, StateWrite, EscalateWrite, NoteWrite,
                      EnsureInsert, EnsureUpdate, Write, PushWrite, Pull, PassEnd, PushRead,
                      PushSent, PushFailed, Apply, Inbound, InboundAssign, InboundMove,
                      InboundNote, InboundRecord
        <5>2. QED
          BY <1>1, <5>1
      <4>4. QED
        BY <1>3, <3>4, <4>1, <4>2, <4>3 DEF Next
    <3>5. QED
      BY <3>1, <3>4
  <2>2. Sync
    BY <2>1 DEF SyncInv
  <2>3. CASE UNCHANGED vars
    BY <2>2, <2>3 DEF vars, outside, Sync, Waits, Within, Known, Sent
  <2>4. ASSUME NEW p \in Procs, Begin(p) \/ PassStart(p) \/ Proceed(p) PROVE Sync'
    BY <1>0, <2>2, <2>4, BeginSync, RequestWriteSync, PushSync, PushWriteSync, PassSync, ApplySync,
       InboundSync DEF Proceed
  <2>5. QED
    BY <1>0, <1>3, <2>2, <2>3, <2>4, OutsideSync DEF Next
<1>4. QED
  BY <1>2, <1>3

THEOREM SyncCorrect ==
    ASSUME InTurn, Provider = "file" PROVE Spec => [](TypeInv /\ StoryInv /\ SyncInv)
<1>1. Init => SyncInv
  BY SyncInit
<1>2. TypeInv /\ StoryInv /\ SyncInv /\ [Next]_vars => SyncInv'
  BY SyncKept
<1>3. QED
  BY <1>1, <1>2, StoryCorrect, PTL DEF Spec

\* Our own writing, coming back through the inbox, is never acted upon
\* (apply_inbound), unless the process died between a push and its last write.
THEOREM OwnWritingDropped == ASSUME InTurn, Provider = "file" PROVE Spec => []EchoesDropped
<1>1. SyncInv => EchoesDropped
  BY DEF SyncInv, Sync, EchoesDropped
<1>2. QED
  BY <1>1, SyncCorrect, PTL

\* A document that a person drops into the inbox, with no revision of ours on
\* it, always reaches the case (apply_inbound).
THEOREM OthersWritingHeard ==
    ASSUME InTurn, Provider = "file", ~Stamped PROVE Spec => []NothingMissed
<1>1. SyncInv => NothingMissed
  BY DEF SyncInv, Sync, NothingMissed
<1>2. QED
  BY <1>1, SyncCorrect, PTL

=============================================================================
