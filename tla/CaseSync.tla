------------------------------ MODULE CaseSync ------------------------------
(***************************************************************************)
(* The case of a situation, worked by people here (cases.py) and in an     *)
(* external system of record (case_sync.py), which is either a directory   *)
(* of files (ticketing/filedrop.py) or TheHive (ticketing/thehive.py).     *)
(*                                                                         *)
(* A request, or a pass of the synchronisation, reads the row of the case, *)
(* may wait, and writes it back; the first write of a transaction takes    *)
(* the database's lock, so that a write and the timeline row that goes     *)
(* with it are one step, and what was read before it may be old.           *)
(***************************************************************************)
EXTENDS Integers, Sequences, FiniteSets

CONSTANTS
    Cases,        \* cases, one per situation, in the order of their ids
    Worked,       \* the cases that people work on, here or outside
    Owners,       \* people a case may be assigned to
    Severities,   \* of situations; priorities are named after them
    MaxTier,      \* the highest tier asked for
    Requests,     \* slots for requests to the API and for analyses
    worker,       \* the background task of case_sync
    Kinds,        \* what requests ask for
    Overlapping,  \* pairs of kinds of work that may overlap
    Provider,     \* CASE_SYNC_PROVIDER: "file" or "thehive"
    Stamped,      \* TRUE iff a person's change outside leaves our stamp on
    OutsideEdits, \* what people do to a ticket, as [state, owner, note]
    Refused,      \* cases the system of record never accepts
    Batch,        \* cases pushed in one pass (50 in push_pending)
    MaxRequests,  \* bound: requests
    MaxOutside,   \* bound: changes arriving from outside, echoes included
    MaxFaults     \* bound: pushes of acceptable cases that fail, and deaths of
                  \* the process, together

NoOne == "nobody"
Unsaid == "unsaid"   \* a field an inbound change leaves out
Edits == {"assign", "state", "escalate"}
AllKinds == Edits \cup {"note", "analyse", "push", "pull"}

ASSUME CaseSyncAssumption ==
    /\ Cases \subseteq Nat /\ IsFiniteSet(Cases) /\ Worked \subseteq Cases
    /\ Refused \subseteq Cases
    /\ NoOne \notin Owners /\ Unsaid \notin Owners
    /\ worker \notin Requests /\ Severities # {}
    /\ Kinds \subseteq AllKinds
    /\ Provider \in {"file", "thehive"} /\ Stamped \in BOOLEAN
    /\ Provider = "thehive" => Stamped   \* the stamp is a tag of the ticket
    /\ {MaxTier, Batch, MaxRequests, MaxOutside, MaxFaults} \subseteq Nat

VARIABLES
    case,      \* table cases
    timeline,  \* table case_events: its top number and what it tells
    proc,      \* requests, analyses and passes in progress
    ticket,    \* outside: the ticket of each case
    inbox,     \* outside: changes that wait to be pulled (a directory)
    missed,    \* history: a person's change outside left no trace here
    used       \* history: requests, changes outside, outages, crashes so far

outside == <<ticket, inbox>>
vars == <<case, timeline, proc, outside, missed, used>>

-----------------------------------------------------------------------------
(* Cases                                                                   *)

States == {"NEW", "ASSIGNED", "IN_PROGRESS", "ESCALATED", "RESOLVED",
           "CLOSED", "REOPENED"}
Working == {"IN_PROGRESS", "ESCALATED", "RESOLVED", "CLOSED"}
\* TRANSITIONS, the whitelist.
Transitions ==
    [s \in States |->
        CASE s \in {"NEW", "REOPENED"} -> {"ASSIGNED"} \cup Working
          [] s = "ASSIGNED" -> Working
          [] s \in {"IN_PROGRESS", "ESCALATED"} -> Working \ {s}
          [] s = "RESOLVED" -> {"CLOSED", "REOPENED"}
          [] s = "CLOSED" -> {"REOPENED"}]

\* closed: somebody is recorded as having closed it; ref: the case knows its
\* ticket; rev: sync_revision.
Row == [there : BOOLEAN, state : States, owner : Owners \cup {NoOne},
        severity : Severities, priority : Severities, tier : 0 .. MaxTier,
        closed : BOOLEAN, status : {"LOCAL", "OK", "ERROR"}, rev : Nat, ref : BOOLEAN]
Opened(severity) ==
    [there |-> TRUE, state |-> "NEW", owner |-> NoOne, severity |-> severity,
     priority |-> severity, tier |-> 0, closed |-> FALSE, status |-> "LOCAL",
     rev |-> 0, ref |-> FALSE]
NoCase == [Opened(CHOOSE s \in Severities : TRUE) EXCEPT !.there = FALSE]

\* What the writes of assign_case, set_case_state and escalate_case make of
\* the row: `read` is what they read of it before.
\* (mutant: an assignment starts a case in any state but the last)
AssignedStarting(row, read, owner) ==
    [row EXCEPT !.owner = owner, !.state = IF owner # NoOne THEN "ASSIGNED" ELSE @]
Assigned(row, read, owner) ==
    [row EXCEPT !.owner = owner,
                !.state = IF owner # NoOne /\ read.state = "NEW" THEN "ASSIGNED" ELSE @]
Moved(row, read, to) ==
    [row EXCEPT !.state = to,
                !.closed = IF to = "CLOSED" THEN TRUE
                           ELSE IF read.state = "CLOSED" THEN FALSE ELSE @]
Raised(row, read, tier) ==
    [row EXCEPT !.tier = tier,
                !.state = IF "ESCALATED" \in Transitions[read.state]
                          THEN "ESCALATED" ELSE @]
\* The update of ensure_case: priority follows severity while nobody has it.
Renewed(row, read, severity) ==
    [row EXCEPT !.severity = severity,
                !.priority = IF /\ severity # read.severity
                                /\ read.state = "NEW" /\ read.owner = NoOne
                             THEN severity ELSE @]
\* Their checks, on what they read.
\* (mutant: set_case_state lists the states that may not be left)
MayMoveAny(read, to) == read.there /\ to # read.state /\ read.state # "CLOSED"
MayAssign(read) == read.there /\ read.state # "CLOSED"
MayMove(read, to) == read.there /\ to \in Transitions[read.state]
MayRaise(read, tier) == read.there /\ read.state # "CLOSED" /\ tier > read.tier

\* A timeline: its highest number; the state of the case it tells when its
\* rows are read in order; whether two rows share a number, or a row moves the
\* case out of a state the rows before it did not bring it to.
Timeline == [top : Nat, told : States, flawed : BOOLEAN]
NoTimeline == [top |-> 0, told |-> "NEW", flawed |-> FALSE]
\* _append_event behind a write of the same transaction: nobody comes between.
Logged(t) == [t EXCEPT !.top = @ + 1]
LoggedAssignment(t, owner) ==
    [Logged(t) EXCEPT !.told = IF owner # NoOne /\ @ = "NEW" THEN "ASSIGNED" ELSE @]
LoggedMove(t, from, to) ==
    [Logged(t) EXCEPT !.told = to, !.flawed = @ \/ from # t.told]
LoggedRise(t) ==
    [Logged(t) EXCEPT !.told = IF "ESCALATED" \in Transitions[@] THEN "ESCALATED" ELSE @]
\* _append_event ahead of any write: the highest number is one read before.
LoggedAs(t, seq) ==
    [t EXCEPT !.top = IF seq > @ THEN seq ELSE @, !.flawed = @ \/ seq <= t.top]

\* An inbound change. rev: the stamp it quotes, 0 for none; ours: it is our
\* own writing coming back.
Change == [case : Cases, state : States \cup {Unsaid, "unmapped"},
           owner : Owners \cup {NoOne, Unsaid}, note : BOOLEAN, rev : Nat, ours : BOOLEAN]
ASSUME OutsideAssumption ==
    OutsideEdits \subseteq [state : States \cup {Unsaid, "unmapped"},
                            owner : Owners \cup {NoOne, Unsaid}, note : BOOLEAN]
\* rev: the stamp of the last push, 0 for no ticket; touched: a person changed
\* it and no pass has read that.
Ticket == [rev : Nat, state : States, owner : Owners \cup {NoOne}, touched : BOOLEAN]

\* A request or a pass: what it is at, the case, the row as push_case or
\* apply_inbound read it, the row as the operation in progress read it, what
\* was asked for, the number a timeline row will get, and of a pass the cases
\* left to push, the changes left to apply and the one being applied.
NoWork == [kind |-> "none", pc |-> "idle", case |-> 0, row |-> NoCase, now |-> NoCase,
           want |-> Unsaid, seq |-> 0, pass |-> FALSE, todo |-> {}, news |-> {},
           change |-> {}]
Procs == Requests \cup {worker}
Busy == {p \in Procs : proc[p].pc # "idle"}
Free(p, kind) == \A q \in Busy \ {p} : {kind, proc[q].kind} \in Overlapping

Init ==
    /\ case = [c \in Cases |-> NoCase]
    /\ timeline = [c \in Cases |-> NoTimeline]
    /\ proc = [p \in Procs |-> NoWork]
    /\ ticket = [c \in Cases |-> [rev |-> 0, state |-> "NEW", owner |-> NoOne,
                                  touched |-> FALSE]]
    /\ inbox = {} /\ missed = FALSE
    /\ used = [requests |-> 0, outside |-> 0, outages |-> 0, crashes |-> 0]

-----------------------------------------------------------------------------
(* The workspace: one request on one case                                  *)

Starts(p, kind, c, want) ==
    /\ p \in Requests /\ proc[p].pc = "idle" /\ kind \in Kinds /\ Free(p, kind)
    /\ used.requests < MaxRequests
    /\ used' = [used EXCEPT !.requests = @ + 1]
    /\ proc' = [proc EXCEPT ![p] =
                  [NoWork EXCEPT !.kind = kind, !.pc = "write", !.case = c,
                                 !.row = case[c], !.now = case[c], !.want = want,
                                 !.seq = timeline[c].top + 1]]
    /\ UNCHANGED <<case, timeline, outside, missed>>

\* What a finished operation leaves: a request is done, a pass goes on with
\* the next case or the next change.
Left(p) == IF proc[p].pass THEN [proc[p] EXCEPT !.pc = "next", !.change = {}] ELSE NoWork
\* The next part of the change being applied that asks for something.
Parts == <<"assign", "move", "note", "record">>
Asks(ch, row, part) ==
    CASE part = "assign" -> ch.owner \notin {Unsaid, row.owner}
      [] part = "move" -> ch.state \notin {Unsaid, "unmapped", row.state}
      [] part = "note" -> ch.note
      [] part = "record" -> TRUE
Part(ch, row, i) ==
    Parts[CHOOSE j \in i .. 4 : /\ Asks(ch, row, Parts[j])
                                /\ \A k \in i .. j - 1 : ~ Asks(ch, row, Parts[k])]

\* assign_case, set_case_state, escalate_case and add_note: the read, with
\* everything that refuses the request.
AssignRead(p, c, owner) == MayAssign(case[c]) /\ Starts(p, "assign", c, owner)
StateRead(p, c, to) == MayMove(case[c], to) /\ Starts(p, "state", c, to)
EscalateRead(p, c, tier) == MayRaise(case[c], tier) /\ Starts(p, "escalate", c, tier)
NoteRead(p, c) == case[c].there /\ Starts(p, "note", c, Unsaid)
\* ensure_case, at the end of an analysis of the situation.
AnalyseRead(p, c, severity) == Starts(p, "analyse", c, severity)

\* Their writes, each with its row of the timeline; `then` is the process after.
Write(p, row, t, then) ==
    LET c == proc[p].case IN
    /\ case' = [case EXCEPT ![c] = row]
    /\ timeline' = [timeline EXCEPT ![c] = t]
    /\ proc' = [proc EXCEPT ![p] = then]
    /\ UNCHANGED <<outside, used>>

AtWrite(p, kind) == proc[p].pc = "write" /\ proc[p].kind = kind
RowOf(p) == case[proc[p].case]
TimelineOf(p) == timeline[proc[p].case]
AssignWrite(p) ==
    LET w == proc[p] IN
    /\ AtWrite(p, "assign") /\ UNCHANGED missed
    /\ Write(p, Assigned(RowOf(p), w.now, w.want), LoggedAssignment(TimelineOf(p), w.want), NoWork)
StateWrite(p) ==
    LET w == proc[p] IN
    /\ AtWrite(p, "state") /\ UNCHANGED missed
    /\ Write(p, Moved(RowOf(p), w.now, w.want),
             LoggedMove(TimelineOf(p), w.now.state, w.want), NoWork)
EscalateWrite(p) ==
    LET w == proc[p] IN
    /\ AtWrite(p, "escalate") /\ UNCHANGED missed
    /\ Write(p, Raised(RowOf(p), w.now, w.want), LoggedRise(TimelineOf(p)), NoWork)
NoteWrite(p) ==
    /\ AtWrite(p, "note") /\ UNCHANGED missed
    /\ Write(p, RowOf(p), LoggedAs(TimelineOf(p), proc[p].seq), NoWork)
\* Another analysis may have opened the case since it was looked for:
\* situation_id is unique, and the insert fails.
EnsureInsert(p) ==
    /\ AtWrite(p, "analyse") /\ ~ proc[p].now.there /\ UNCHANGED missed
    /\ IF RowOf(p).there THEN Write(p, RowOf(p), TimelineOf(p), NoWork)
       ELSE Write(p, Opened(proc[p].want), Logged(TimelineOf(p)), NoWork)
EnsureUpdate(p) ==
    LET w == proc[p] IN
    /\ AtWrite(p, "analyse") /\ w.now.there /\ UNCHANGED missed
    /\ Write(p, Renewed(RowOf(p), w.now, w.want), TimelineOf(p), NoWork)
RequestWrite(p) ==
    \/ AssignWrite(p) \/ StateWrite(p) \/ EscalateWrite(p) \/ NoteWrite(p)
    \/ EnsureInsert(p) \/ EnsureUpdate(p)

-----------------------------------------------------------------------------
(* Outward                                                                 *)

\* push_case, asked for or in a pass: the row is read, and with it the revision
\* this push will carry.
PushAsked(p, c) == case[c].there /\ Starts(p, "push", c, Unsaid)
PushRead(p, c) ==
    /\ proc[p].kind = "push" /\ proc[p].pc = "next"
    /\ c \in proc[p].todo /\ \A d \in proc[p].todo : c <= d
    /\ proc' = [proc EXCEPT ![p] = [proc[p] EXCEPT !.pc = "write", !.case = c,
                                                   !.row = case[c], !.todo = @ \ {c}]]
    /\ UNCHANGED <<case, timeline, outside, missed, used>>

\* provider.push: the outbox file holds the snapshot; TheHive keeps the stage
\* and the assignee it has, once there is a ticket.
Stamp(row, t) ==
    [t EXCEPT !.rev = row.rev + 1,
              !.state = IF Provider = "file" THEN row.state ELSE @,
              !.owner = IF Provider = "file" \/ ~ row.ref THEN row.owner ELSE @]
PushSent(p, c) ==
    /\ AtWrite(p, "push") /\ c = proc[p].case /\ c \notin Refused
    /\ ticket' = [ticket EXCEPT ![c] = Stamp(proc[p].row, @)]
    /\ proc' = [proc EXCEPT ![p].pc = "sent"]
    /\ UNCHANGED <<case, timeline, inbox, missed, used>>
FaultsLeft == used.outages + used.crashes < MaxFaults
\* An answer that is lost leaves the stamp on the ticket.
PushFailed(p, c) ==
    /\ AtWrite(p, "push") /\ c = proc[p].case
    /\ IF c \in Refused THEN used' = used
       ELSE FaultsLeft /\ used' = [used EXCEPT !.outages = @ + 1]
    /\ ticket' \in {ticket} \cup
         IF Provider = "file" \/ c \in Refused THEN {}
         ELSE {[ticket EXCEPT ![c] = Stamp(proc[p].row, @)]}
    /\ proc' = [proc EXCEPT ![p].pc = "failed"]
    /\ UNCHANGED <<case, timeline, inbox, missed>>

\* Its last write: the row is in sync as of the revision this push read.
Pushed(row, read) == [row EXCEPT !.status = "OK", !.rev = read.rev + 1, !.ref = TRUE]
PushWrite(p) ==
    LET c == proc[p].case IN
    /\ \/ /\ proc[p].pc = "sent"
          /\ Write(p, Pushed(case[c], proc[p].row), Logged(timeline[c]), Left(p))
       \/ /\ proc[p].pc = "failed"
          /\ Write(p, [case[c] EXCEPT !.status = "ERROR"], timeline[c], Left(p))
    /\ UNCHANGED missed

\* push_pending: what has never been pushed and what failed, the oldest first.
\* (mutant: what failed is not tried again)
PendingOnce == {c \in Cases : case[c].there /\ case[c].status = "LOCAL"}
Pending == {c \in Cases : case[c].there /\ case[c].status \in {"LOCAL", "ERROR"}}
FirstOf(S) == {c \in S : Cardinality({d \in S : d < c}) < Batch}
PassStart(p) ==
    /\ proc[p].pc = "idle" /\ Free(p, "push")
    /\ IF p = worker THEN used' = used
       ELSE /\ "pull" \in Kinds /\ used.requests < MaxRequests
            /\ used' = [used EXCEPT !.requests = @ + 1]
    /\ proc' = [proc EXCEPT ![p] = [NoWork EXCEPT !.kind = "push", !.pc = "next",
                                                  !.pass = TRUE, !.todo = FirstOf(Pending)]]
    /\ UNCHANGED <<case, timeline, outside, missed>>

-----------------------------------------------------------------------------
(* Inward                                                                  *)

\* provider.pull: the files of the inbox, which are put away before anything
\* is made of them; of TheHive, every ticket that is ours as it now is.
TicketAsRead(c) ==
    [case |-> c, state |-> ticket[c].state,
     owner |-> IF ticket[c].owner = NoOne THEN Unsaid ELSE ticket[c].owner,
     note |-> FALSE, rev |-> ticket[c].rev, ours |-> ~ ticket[c].touched]
News == IF Provider = "file" THEN inbox
        ELSE {TicketAsRead(c) : c \in {d \in Cases : ticket[d].rev > 0}}
Pull(p) ==
    /\ proc[p].kind = "push" /\ proc[p].pc = "next" /\ proc[p].todo = {}
    /\ Free(p, "pull")
    /\ proc' = [proc EXCEPT ![p].kind = "pull", ![p].news = News]
    /\ inbox' = {}
    /\ ticket' = [c \in Cases |-> [ticket[c] EXCEPT !.touched = FALSE]]
    /\ UNCHANGED <<case, timeline, missed, used>>
PassEnd(p) ==
    /\ proc[p].kind = "pull" /\ proc[p].pc = "next" /\ proc[p].news = {}
    /\ proc' = [proc EXCEPT ![p] = NoWork]
    /\ UNCHANGED <<case, timeline, outside, missed, used>>

\* apply_inbound: the case by its ticket, and our own writing set aside.
\* (mutant: a change that quotes no revision is an echo too)
IsEchoUnstamped(ch, row) == ch.rev <= row.rev
\* (mutant: only the revision last pushed is an echo)
IsEchoOfLast(ch, row) == ch.rev # 0 /\ ch.rev < row.rev
IsEcho(ch, row) == ch.rev # 0 /\ ch.rev <= row.rev
Apply(p, ch) ==
    LET row == case[ch.case] IN
    /\ proc[p].kind = "pull" /\ proc[p].pc = "next" /\ ch \in proc[p].news
    /\ IF row.ref /\ ~ IsEcho(ch, row)
       THEN /\ proc' = [proc EXCEPT
                ![p] = [proc[p] EXCEPT !.pc = Part(ch, row, 1), !.case = ch.case, !.row = row,
                                       !.news = @ \ {ch}, !.change = {ch}]]
            /\ UNCHANGED missed
       ELSE /\ proc' = [proc EXCEPT ![p].news = @ \ {ch}]
            /\ missed' = (missed \/ ~ ch.ours)
    /\ UNCHANGED <<case, timeline, outside, used>>

\* Each part is an operation of the workspace with a read of its own; one that
\* is refused there is noted and passed over.
Goes(p, pc) ==
    LET c == proc[p].case IN
    proc' = [proc EXCEPT ![p] = [proc[p] EXCEPT !.pc = pc, !.now = case[c],
                                                !.seq = timeline[c].top + 1]]
InboundAssign(p, ch) ==
    LET w == proc[p] IN
    \/ /\ w.pc = "assign"
       /\ Goes(p, IF MayAssign(RowOf(p)) THEN "assigning" ELSE Part(ch, w.row, 2))
       /\ UNCHANGED <<case, timeline, outside, used>>
    \/ /\ w.pc = "assigning"
       /\ Write(p, Assigned(RowOf(p), w.now, ch.owner),
                LoggedAssignment(TimelineOf(p), ch.owner), [w EXCEPT !.pc = Part(ch, w.row, 2)])
InboundMove(p, ch) ==
    LET w == proc[p] IN
    \/ /\ w.pc = "move"
       /\ Goes(p, IF MayMove(RowOf(p), ch.state) THEN "moving" ELSE Part(ch, w.row, 3))
       /\ UNCHANGED <<case, timeline, outside, used>>
    \/ /\ w.pc = "moving"
       /\ Write(p, Moved(RowOf(p), w.now, ch.state),
                LoggedMove(TimelineOf(p), w.now.state, ch.state),
                [w EXCEPT !.pc = Part(ch, w.row, 3)])
InboundNote(p, ch) ==
    \/ proc[p].pc = "note" /\ Goes(p, "noting") /\ UNCHANGED <<case, timeline, outside, used>>
    \/ /\ proc[p].pc = "noting"
       /\ Write(p, RowOf(p), LoggedAs(TimelineOf(p), proc[p].seq),
                [proc[p] EXCEPT !.pc = Part(ch, proc[p].row, 4)])
\* What was applied and what was refused, on the timeline.
InboundRecord(p) ==
    proc[p].pc = "record" /\ Write(p, RowOf(p), Logged(TimelineOf(p)), Left(p))
Inbound(p, ch) ==
    /\ ch \in proc[p].change /\ UNCHANGED missed
    /\ InboundAssign(p, ch) \/ InboundMove(p, ch) \/ InboundNote(p, ch) \/ InboundRecord(p)

-----------------------------------------------------------------------------
(* Outside, and the death of the process                                   *)

Heard == used.outside < MaxOutside /\ used' = [used EXCEPT !.outside = @ + 1]
\* An integration that round-trips documents sends our own writing back.
Echo(c) ==
    /\ Provider = "file" /\ c \in Worked /\ ticket[c].rev > 0 /\ Heard
    /\ inbox' = inbox \cup {TicketAsRead(c)}
    /\ UNCHANGED <<case, timeline, proc, ticket, missed>>
\* A person changes the ticket: by a document, or in TheHive itself.
PersonEdits(c, edit) ==
    /\ c \in Worked /\ ticket[c].rev > 0 /\ Heard
    /\ IF Provider = "file"
       THEN /\ inbox' = inbox \cup
                 {[case |-> c, state |-> edit.state, owner |-> edit.owner, note |-> edit.note,
                   rev |-> IF Stamped THEN ticket[c].rev ELSE 0, ours |-> FALSE]}
            /\ UNCHANGED ticket
       ELSE /\ ticket' = [ticket EXCEPT ![c] =
                 [rev |-> IF Stamped THEN @.rev ELSE 0,
                  state |-> IF edit.state \in States THEN edit.state ELSE @.state,
                  owner |-> IF edit.owner = Unsaid THEN @.owner ELSE edit.owner,
                  touched |-> TRUE]]
            /\ UNCHANGED inbox
    /\ UNCHANGED <<case, timeline, proc, missed>>

\* With nothing in progress a death loses nothing: everything else is stored.
Crash ==
    /\ Busy # {}
    /\ FaultsLeft /\ used' = [used EXCEPT !.crashes = @ + 1]
    /\ proc' = [p \in Procs |-> NoWork]
    /\ missed' = (missed \/ \E p \in Procs : \E ch \in proc[p].news \cup proc[p].change : ~ ch.ours)
    /\ UNCHANGED <<case, timeline, outside>>

Begin(p) ==
    \E c \in Cases :
        \/ c \in Worked /\ \E owner \in Owners \cup {NoOne} : AssignRead(p, c, owner)
        \/ c \in Worked /\ \E to \in States : StateRead(p, c, to)
        \/ c \in Worked /\ \E tier \in 1 .. MaxTier : EscalateRead(p, c, tier)
        \/ c \in Worked /\ (NoteRead(p, c) \/ PushAsked(p, c))
        \/ \E severity \in Severities : AnalyseRead(p, c, severity)
Proceed(p) ==
    \/ RequestWrite(p) \/ PushWrite(p) \/ Pull(p) \/ PassEnd(p)
    \/ \E c \in Cases : PushRead(p, c) \/ PushSent(p, c) \/ PushFailed(p, c)
    \/ \E ch \in proc[p].news : Apply(p, ch)
    \/ \E ch \in proc[p].change : Inbound(p, ch)
Outside == \E c \in Cases : Echo(c) \/ \E edit \in OutsideEdits : PersonEdits(c, edit)

Next ==
    \/ \E p \in Procs : Begin(p) \/ PassStart(p) \/ Proceed(p)
    \/ Outside \/ Crash

\* A request that has begun goes on, and the worker makes one pass after
\* another.  Nobody need ask for anything, and nothing need come from outside.
Spec ==
    /\ Init /\ [][Next]_vars
    /\ \A p \in Procs : WF_vars(Proceed(p))
    /\ WF_vars(PassStart(worker))

-----------------------------------------------------------------------------
(* Properties                                                              *)

PCs == {"idle", "write", "next", "sent", "failed", "assign", "assigning", "move",
        "moving", "note", "noting", "record"}

\* Besides the domains: a request asks for what its kind asks for, only passes
\* take one thing after another, and only a pass that pulls has a change in hand.
TypeOK ==
    /\ case \in [Cases -> Row]
    /\ timeline \in [Cases -> Timeline]
    /\ DOMAIN proc = Procs
    /\ \A p \in Procs : LET w == proc[p] IN
        /\ w \in [kind : AllKinds \cup {"none"}, pc : PCs, case : Cases \cup {0}, row : Row,
                  now : Row, want : {w.want}, seq : Nat, pass : BOOLEAN, todo : SUBSET Cases,
                  news : SUBSET Change, change : SUBSET Change]
        /\ w.kind = "assign" => w.want \in Owners \cup {NoOne}
        /\ w.kind = "state" => w.want \in States
        /\ w.kind = "escalate" => w.want \in 1 .. MaxTier
        /\ w.kind = "analyse" => w.want \in Severities
        /\ w.pc = "next" => w.pass
        /\ w.change # {} => w.kind = "pull"
    /\ ticket \in [Cases -> Ticket]
    /\ inbox \subseteq Change
    /\ missed \in BOOLEAN
    /\ used \in [requests : Nat, outside : Nat, outages : Nat, crashes : Nat]

\* The timeline, read from its first row to its last, tells the state the case
\* is in; no two rows share a number, and no row leaves a state the rows before
\* it did not reach (cases.py: "The timeline is append-only"; schema.py:318
\* "the only place a case's history lives").
TimelineTellsState ==
    \A c \in Cases : ~ timeline[c].flawed /\ timeline[c].told = case[c].state

\* A case moves only along the whitelist, whoever moves it: a person here, an
\* assignment, an escalation or the ticket (cases.py: "an unlisted transition
\* is refused rather than silently permitted"); it says who closed it exactly
\* while it is closed; and once it is somebody's, an analysis no longer sets
\* its priority ("re-prioritising is their call").
FollowsWhitelist ==
    [][\A c \in Cases :
        /\ case[c].there => /\ case'[c].there
                            /\ case'[c].state \in {case[c].state} \cup Transitions[case[c].state]
        /\ case'[c].closed <=> case'[c].state = "CLOSED"
        /\ case[c].owner # NoOne => case'[c].priority = case[c].priority]_case

\* Our own writing, coming back, is never acted upon (case_sync.py: "two
\* systems politely update each other forever"), unless the process died
\* between a push and the write of its revision.
EchoesDropped ==
    used.crashes = 0 => \A p \in Procs : \A ch \in proc[p].change : ~ ch.ours

\* Whatever a person changes on a ticket of ours leaves a trace on the timeline
\* once it has been pulled, refused or not (case_sync.py: "A refused change is
\* recorded on the timeline with its reason rather than dropped silently"),
\* unless the process died with the change in hand.
NothingMissed == used.crashes = 0 => ~ missed

\* Every case the system of record accepts reaches it, and after a failure
\* reaches it again (push_case: "retried on the next pass").
EveryCaseIsPushed ==
    \A c \in Cases \ Refused : case[c].there ~> case[c].status = "OK"
=============================================================================
