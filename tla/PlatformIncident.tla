--------------------------- MODULE PlatformIncident ---------------------------
(***************************************************************************)
(* One message per infrastructure burst (deliver/incidents.py, called by   *)
(* _deliver_notifications).  The runs that take the platform path          *)
(* coordinate through an open incident issue of their kind: the first one  *)
(* opens it and sends, later ones comment on it and stay silent.  Every    *)
(* action is one GitHub call or one send; jobs overlap, calls fail and the *)
(* clock moves on during a job.                                            *)
(***************************************************************************)
EXTENDS Integers, Sequences, FiniteSets

CONSTANTS
    Runs,           \* delivery jobs that take a platform path
    Kinds, KindOf,  \* INCIDENT_KINDS and the kind of each run
    Channels,       \* the configured ones of chat and email
    Enabled,        \* create-issues is on
    Window,         \* quiet-window-minutes, in ticks
    Skew,           \* CLOCK_SKEW
    JobMax,         \* bound: ticks a job lasts (timeout-minutes: 5)
    SupersedeMax,   \* SUPERSEDE_MAX
    MaxClock,       \* bound: ticks in all
    MaxIncidents,   \* bound: incidents ever opened
    Faults          \* what may go wrong in this instance

FaultKinds ==
    {"list",    \* a listing fails
     "write",   \* a write is refused, nothing lands
     "lost",    \* a write lands and its answer is lost
     "twice",   \* a create lands, answers 5xx and is sent again by _request
     "send",    \* a chat or email server does not take the message
     "late",    \* the delivery budget runs out
     "crash",   \* the job is cancelled
     "human"}   \* a human closes an incident

ASSUME KindAssumption    == KindOf \in [Runs -> Kinds]
ASSUME ChannelAssumption == Channels # {} /\ Channels \subseteq {"chat", "email"}
ASSUME EnabledAssumption == Enabled \in BOOLEAN
ASSUME NumberAssumption  == {Window, Skew, JobMax, SupersedeMax, MaxClock, MaxIncidents} \subseteq Nat
ASSUME FaultAssumption   == Faults \subseteq FaultKinds

\* A job is killed before a stamp of it can look like the future to another.
ASSUME SkewAssumption    == JobMax <= Skew

VARIABLES
    incidents,  \* the incident issues, in order of their numbers
    clock,      \* GitHub's clock and the runners'
    pc,         \* where each job is
    job         \* what each job holds: its IncidentOutcome and send status

vars == <<incidents, clock, pc, job>>

Numbers  == 1 .. MaxIncidents
Times    == 0 .. MaxClock
Incident == [kind : Kinds, created : Times, updated : Times, state : {"open", "closed", "human"}]

\* send is the decision; met is what the run met that kept it from coordinating.
Blank == [now |-> 0, send |-> TRUE, number |-> 0, todo |-> {}, late |-> FALSE,
          told |-> [c \in Channels |-> "not yet"], met |-> "nothing"]

Init ==
    /\ incidents = <<>>
    /\ clock = 0
    /\ pc = [r \in Runs |-> "idle"]
    /\ job = [r \in Runs |-> Blank]

InFlight    == {r \in Runs : pc[r] \notin {"idle", "done", "killed"}}
MayFail(k)  == k \in Faults
Goto(r, at) == pc' = [pc EXCEPT ![r] = at]
Keep(r, j)  == job' = [job EXCEPT ![r] = j]

InTime(j)    == ~j.late
MayRunOut(j) == j.late \/ MayFail("late")
Late(j)      == [j EXCEPT !.late = TRUE]

\* _within: a stamp slightly ahead of the job's clock still counts.
Within(stamp, now) == -Skew <= now - stamp /\ now - stamp <= Window

\* _open_incidents
OpenIncidents(kind) == {n \in DOMAIN incidents : incidents[n].kind = kind /\ incidents[n].state = "open"}

Lowest(n, S) == n \in S /\ \A m \in S : n <= m

\* max(recent, key=updated_at) of a listing that comes newest first
Latest(n, S) ==
    /\ n \in S
    /\ \A m \in S : \/ incidents[m].updated < incidents[n].updated
                    \/ incidents[m].updated = incidents[n].updated /\ m <= n

Start(r) ==
    /\ pc[r] = "idle"
    /\ Keep(r, [Blank EXCEPT !.now = clock])
    /\ Goto(r, IF Enabled THEN "list" ELSE "send")
    /\ UNCHANGED <<incidents, clock>>

\* Whatever keeps a run from coordinating, it sends.
FailOpen(r, j) == Keep(r, [j EXCEPT !.met = "failure"]) /\ Goto(r, "send")

List(r) ==
    LET j == job[r]
        recent == {n \in OpenIncidents(KindOf[r]) : Within(incidents[n].updated, j.now)} IN
    /\ pc[r] = "list"
    /\ \/ \E n \in recent :
            /\ Latest(n, recent)
            /\ Keep(r, [j EXCEPT !.send = FALSE, !.number = n]) /\ Goto(r, "join")
       \/ recent = {} /\ Goto(r, "create") /\ UNCHANGED job
       \/ MayFail("list") /\ FailOpen(r, j)
    /\ UNCHANGED <<incidents, clock>>

Touched(n) == [incidents EXCEPT ![n].updated = clock]

\* What a finished run leaves behind: when it started, what it decided and why.
End(r, j) ==
    /\ Keep(r, [Blank EXCEPT !.now = j.now, !.send = j.send, !.told = j.told, !.met = j.met])
    /\ Goto(r, "done")

\* The comment that bumps updated_at; without it the run is silent all the same.
Join(r) ==
    LET j == job[r] IN
    /\ pc[r] = "join"
    /\ \/ InTime(j) /\ incidents' = Touched(j.number)
       \/ (MayRunOut(j) \/ MayFail("write")) /\ UNCHANGED incidents
    /\ End(r, j)
    /\ UNCHANGED clock

OpenedCaps(r) ==   \* mutant: GraphQL's spelling of the state
    [kind |-> KindOf[r], created |-> clock, updated |-> clock, state |-> "OPEN"]

Opened(r) == [kind |-> KindOf[r], created |-> clock, updated |-> clock, state |-> "open"]

Create(r) ==
    LET j == job[r]
        n == Len(incidents) + 1 IN
    /\ pc[r] = "create" /\ n <= MaxIncidents
    /\ \/ InTime(j) /\ incidents' = Append(incidents, Opened(r))
          /\ Keep(r, [j EXCEPT !.number = n]) /\ Goto(r, "recheck")
       \/ InTime(j) /\ MayFail("twice") /\ n < MaxIncidents
          /\ incidents' = Append(Append(incidents, Opened(r)), Opened(r))
          /\ Keep(r, [j EXCEPT !.number = n + 1, !.met = "twice"]) /\ Goto(r, "recheck")
       \/ InTime(j) /\ MayFail("lost")
          /\ incidents' = Append(incidents, Opened(r)) /\ FailOpen(r, j)
       \/ InTime(j) /\ MayFail("write") /\ FailOpen(r, j) /\ UNCHANGED incidents
       \/ MayRunOut(j) /\ FailOpen(r, Late(j)) /\ UNCHANGED incidents
    /\ UNCHANGED clock

\* The open incidents created in the window, listed anew, and ours.
ContendersOurs(r) == {job[r].number}   \* mutant: no re-check

Contenders(r) ==
    {job[r].number} \union {n \in OpenIncidents(KindOf[r]) : Within(incidents[n].created, job[r].now)}

WinnerAlone(n, S) == S = {n}     \* mutant: any rival makes a run give way
Winner(n, S)      == Lowest(n, S)

\* Incidents of bursts that are over, at most SupersedeMax, lowest first.
Older(r) ==
    LET older == {n \in OpenIncidents(KindOf[r]) :
                    n # job[r].number /\ ~Within(incidents[n].updated, job[r].now)} IN
    {n \in older : Cardinality({m \in older : m < n}) < SupersedeMax}

Recheck(r) ==
    LET j == job[r] IN
    /\ pc[r] = "recheck"
    /\ \/ /\ ~Winner(j.number, Contenders(r))
          /\ Keep(r, [j EXCEPT !.send = FALSE, !.todo = {j.number}])
          /\ Goto(r, "note")
       \/ /\ Winner(j.number, Contenders(r))
          /\ Keep(r, [j EXCEPT !.todo = Older(r)])
          /\ Goto(r, IF Older(r) = {} THEN "send" ELSE "note")
       \/ MayFail("list") /\ FailOpen(r, j)
    /\ UNCHANGED <<incidents, clock>>

\* The loop over what is to be closed ends; a run that lost is silent.
Continue(r, j) ==
    IF j.todo = {} /\ ~j.send THEN End(r, j)
    ELSE Keep(r, j) /\ Goto(r, IF j.todo # {} THEN "note" ELSE "send")

\* _close: a comment, then the close; a failure leaves that one.  Only the
\* superseding loop looks at the budget.
Note(r) ==
    LET j == job[r] IN
    /\ pc[r] = "note"
    /\ \/ \E n \in j.todo :
            /\ Lowest(n, j.todo) /\ (InTime(j) \/ ~j.send)
            /\ \/ incidents' = Touched(n) /\ Goto(r, "close") /\ UNCHANGED job
               \/ /\ \/ MayFail("write") /\ UNCHANGED incidents
                     \/ MayFail("lost") /\ incidents' = Touched(n)
                  /\ Continue(r, [j EXCEPT !.todo = @ \ {n}])
       \/ j.send /\ MayRunOut(j) /\ Continue(r, Late([j EXCEPT !.todo = {}])) /\ UNCHANGED incidents
    /\ UNCHANGED clock

Close(r) ==
    LET j == job[r] IN
    /\ pc[r] = "close"
    /\ \E n \in j.todo :
        /\ Lowest(n, j.todo)
        /\ \/ incidents' = [Touched(n) EXCEPT ![n].state = IF @ = "open" THEN "closed" ELSE @]
           \/ MayFail("write") /\ UNCHANGED incidents
        /\ Continue(r, [j EXCEPT !.todo = @ \ {n}])
    /\ UNCHANGED clock

\* Chat first, then email, each for what is left of the budget.
Unsent(j) == {c \in Channels : j.told[c] = "not yet"}

Send(r) ==
    LET j == job[r]
        c == IF "chat" \in Unsent(j) THEN "chat" ELSE "email"
        result(k, s) == LET m == [k EXCEPT !.told[c] = s] IN
                        IF Unsent(m) = {} THEN End(r, m) ELSE Keep(r, m) /\ UNCHANGED pc IN
    /\ pc[r] = "send"
    /\ \/ InTime(j) /\ result(j, "sent")
       \/ InTime(j) /\ MayFail("send") /\ result(j, "not sent")
       \/ MayRunOut(j) /\ result(Late(j), "not sent")
    /\ UNCHANGED <<incidents, clock>>

Crash(r) ==
    /\ MayFail("crash") /\ r \in InFlight
    /\ Keep(r, [Blank EXCEPT !.now = job[r].now]) /\ Goto(r, "killed")
    /\ UNCHANGED <<incidents, clock>>

HumanCloses(n) ==
    /\ MayFail("human") /\ incidents[n].state = "open"
    /\ incidents' = [Touched(n) EXCEPT ![n].state = "human"]
    /\ UNCHANGED <<clock, pc, job>>

Tick ==
    /\ clock < MaxClock
    /\ \A r \in InFlight : clock - job[r].now < JobMax
    /\ clock' = clock + 1
    /\ UNCHANGED <<incidents, pc, job>>

Step(r) ==
    \/ List(r) \/ Join(r) \/ Create(r) \/ Recheck(r) \/ Note(r) \/ Close(r) \/ Send(r)

Next ==
    \/ \E r \in Runs : Start(r) \/ Step(r) \/ Crash(r)
    \/ \E n \in DOMAIN incidents : HumanCloses(n)
    \/ Tick

Spec == Init /\ [][Next]_vars

-----------------------------------------------------------------------------
(* Properties *)

TypeOK ==
    /\ incidents \in Seq(Incident) /\ Len(incidents) <= MaxIncidents
    /\ clock \in Times
    /\ pc \in [Runs -> {"idle", "list", "join", "create", "recheck", "note", "close", "send",
                        "done", "killed"}]
    /\ job \in [Runs -> [now : Times, send : BOOLEAN, number : 0 .. MaxIncidents,
                         todo : SUBSET Numbers, late : BOOLEAN,
                         told : [Channels -> {"not yet", "sent", "not sent"}],
                         met : {"nothing", "failure", "twice"}]]

Decided(r) == pc[r] \in {"send", "done"} /\ job[r].send
Silent(r)  == pc[r] = "done" /\ ~job[r].send

ClosedByHuman(kind) ==
    \E n \in DOMAIN incidents : incidents[n].kind = kind /\ incidents[n].state = "human"

\* Two runs of a kind that start within one window never both send, unless one
\* of them could not coordinate or a human has ended the incident meanwhile
\* ("one continuous outage, one message").
OneMessage ==
    \A p, q \in Runs :
        /\ p # q /\ KindOf[p] = KindOf[q] /\ Decided(p) /\ Decided(q)
        /\ job[p].now <= job[q].now /\ job[q].now - job[p].now <= Window
        => {job[p].met, job[q].met} # {"nothing"} \/ ClosedByHuman(KindOf[p])

\* When all is over, a run that stayed silent did so because another one of
\* its kind decided to send ("fail-open"); a cancelled run may have decided
\* nothing, and a create that landed twice is what MissedBurst is about.
SilentIsTold ==
    InFlight = {} => \A r \in Runs : Silent(r) =>
        \E s \in Runs : /\ KindOf[s] = KindOf[r]
                        /\ Decided(s) \/ pc[s] = "killed" \/ job[s].met = "twice"

\* The jobs never close the last open incident of a kind, so that a later run
\* of the burst finds one to join (_close as duplicate, _close as superseded).
OneStaysOpen ==
    \A k \in Kinds :
        (\E n \in DOMAIN incidents : incidents[n].kind = k) /\ ~ClosedByHuman(k)
            => OpenIncidents(k) # {}

\* Once all jobs of a kind have ended somebody has decided to send.
BurstIsTold ==
    \A k \in Kinds :
        LET burst == {r \in Runs : KindOf[r] = k} IN
        burst # {} /\ (\A r \in burst : pc[r] = "done") => \E r \in burst : Decided(r)
=============================================================================
