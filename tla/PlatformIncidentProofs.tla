------------------------ MODULE PlatformIncidentProofs ------------------------
(***************************************************************************)
(* Proofs about PlatformIncident, for any number of runs, kinds, channels  *)
(* and ticks and any set of faults.                                        *)
(***************************************************************************)
EXTENDS PlatformIncident, FiniteSetTheorems, WellFoundedInduction, TLAPS

Places  == {"idle", "list", "join", "create", "recheck", "note", "close", "send", "done", "killed"}
JobType == [now : Times, send : BOOLEAN, number : 0 .. MaxIncidents, todo : SUBSET Numbers, late : BOOLEAN,
            told : [Channels -> {"not yet", "sent", "not sent"}], met : {"nothing", "failure", "twice"}]

Ended(at) == at \in {"idle", "done", "killed"}
OfKind(inc, n, k) == n \in DOMAIN inc /\ inc[n].kind = k

\* Stamps are never ahead of the clock.
StampsOK(inc) ==
    \A n \in DOMAIN inc : inc[n].created <= inc[n].updated /\ inc[n].updated <= clock

\* A job is in time, sends unless it has found another run's incident, and holds
\* at its re-check an incident of its kind that it has opened itself.
JobOK(r, j, at, inc) ==
    /\ j.now <= clock
    /\ ~Ended(at) => clock <= j.now + JobMax
    /\ at = "idle" => j.met = "nothing"
    /\ at = "list" => j.todo = {}
    /\ at = "join" => ~j.send
    /\ at \in {"list", "create", "recheck", "send"} => j.send
    /\ at = "recheck" => OfKind(inc, j.number, KindOf[r]) /\ j.now <= inc[j.number].created
    /\ \A n \in j.todo : OfKind(inc, n, KindOf[r])
    /\ ~j.send => \E n \in DOMAIN inc : OfKind(inc, n, KindOf[r])

Rechecks(r, n) == pc[r] = "recheck" /\ job[r].number = n

OwnersDiffer == \A r, s \in Runs : \A n \in Numbers : Rechecks(r, n) /\ Rechecks(s, n) => r = s

\* The first incident of a kind has been opened by a run that sends, cannot
\* lose its re-check, or is one of the exceptions.
TellerAt(at, j, n) ==
    \/ at \in {"note", "close", "send", "done"} /\ j.send
    \/ at = "killed" \/ j.met = "twice"
    \/ at = "recheck" /\ j.number = n

Teller(s, n) == TellerAt(pc[s], job[s], n)

FirstOfKind(n) == \A m \in DOMAIN incidents : m < n => incidents[m].kind # incidents[n].kind

TellersOK ==
    \A n \in DOMAIN incidents : FirstOfKind(n) =>
        \E s \in Runs : KindOf[s] = incidents[n].kind /\ Teller(s, n)

ByHuman(inc, k) == \E n \in DOMAIN inc : inc[n].kind = k /\ inc[n].state = "human"

\* Two facts about the re-check need create-issues and a quiet window in which
\* a job has time to end.
Coordinating == Enabled /\ JobMax <= Window

WonRun(r) == pc[r] \in {"note", "close", "send", "done"} /\ job[r].send /\ job[r].met = "nothing"

\* Of the incidents so far those in "lost" have lost the re-check and those in
\* "won" have won it.
SetsOK(lost, won) ==
    /\ lost \subseteq DOMAIN incidents /\ won \subseteq DOMAIN incidents /\ lost \intersect won = {}
    /\ \A r \in Runs : \A n \in Numbers : Rechecks(r, n) => n \notin lost /\ n \notin won

\* An incident loses to one before it.
LostOK(lost) ==
    /\ \A x \in lost : \E m \in DOMAIN incidents : m < x /\ incidents[m].kind = incidents[x].kind
    /\ \A r \in Runs : \A n \in job[r].todo : ~job[r].send => n \in lost

\* One that has not lost is closed, or going to be, only for a later one that has won.
Doomed(x) == incidents[x].state = "closed" \/ \E r \in Runs : job[r].send /\ x \in job[r].todo

SupersededOK(lost, won) ==
    \A x \in DOMAIN incidents : x \notin lost /\ Doomed(x) =>
        \E z \in won : /\ incidents[z].kind = incidents[x].kind
                       /\ incidents[x].created + Window < incidents[z].created

\* One that has won is more than a window later than those before it that have
\* not lost, and so is the run that has opened it.
Alone(inc, lost, n, k, time) ==
    \A x \in DOMAIN inc : x < n /\ inc[x].kind = k /\ x \notin lost =>
        inc[x].created + Window < time

WonOK(lost, won) ==
    Coordinating => \A y \in won :
        \/ ByHuman(incidents, incidents[y].kind)
        \/ Alone(incidents, lost, y, incidents[y].kind, incidents[y].created)

WinnersOK(lost, won) ==
    Coordinating => \A r \in Runs : WonRun(r) =>
        \/ ByHuman(incidents, KindOf[r])
        \/ \E a \in won : /\ incidents[a].kind = KindOf[r] /\ job[r].now <= incidents[a].created
                          /\ Alone(incidents, lost, a, KindOf[r], job[r].now)

Apart(p, q) == job[p].now + Window < job[q].now \/ job[q].now + Window < job[p].now

WinnersApart ==
    Coordinating => \A p, q \in Runs :
        p # q /\ KindOf[p] = KindOf[q] /\ WonRun(p) /\ WonRun(q) =>
            ByHuman(incidents, KindOf[p]) \/ Apart(p, q)

Coordinated(lost, won) ==
    /\ SetsOK(lost, won) /\ LostOK(lost) /\ SupersededOK(lost, won)
    /\ WonOK(lost, won) /\ WinnersOK(lost, won)

IInv ==
    /\ TypeOK
    /\ StampsOK(incidents)
    /\ \A r \in Runs : JobOK(r, job[r], pc[r], incidents)
    /\ OwnersDiffer
    /\ TellersOK
    /\ WinnersApart
    /\ \E lost, won \in SUBSET Numbers : Coordinated(lost, won)

-----------------------------------------------------------------------------
(* What happens to the incidents                                           *)

Typed(inc) == inc \in Seq(Incident) /\ Len(inc) <= MaxIncidents

\* Kind, creation and a human's word stay; what is new is open.
Keeps(inc, new) ==
    /\ DOMAIN inc \subseteq DOMAIN new
    /\ \A n \in DOMAIN inc : /\ new[n].kind = inc[n].kind /\ new[n].created = inc[n].created
                             /\ inc[n].state = "human" => new[n].state = "human"
    /\ \A n \in DOMAIN new : n \notin DOMAIN inc => new[n].state = "open"

LEMMA Constants ==
    /\ Window \in Nat /\ Skew \in Nat /\ JobMax \in Nat /\ SupersedeMax \in Nat
    /\ MaxClock \in Nat /\ MaxIncidents \in Nat /\ JobMax <= Skew
BY NumberAssumption, SkewAssumption

LEMMA Entries ==
    ASSUME NEW inc, Typed(inc)
    PROVE  /\ DOMAIN inc = 1 .. Len(inc) /\ Len(inc) \in Nat /\ DOMAIN inc \subseteq Numbers
           /\ DOMAIN inc \subseteq Nat
           /\ \A n \in DOMAIN inc :
                /\ inc[n] \in Incident /\ inc[n].kind \in Kinds
                /\ inc[n].created \in Nat /\ inc[n].updated \in Nat
                /\ inc[n].state \in {"open", "closed", "human"}
<1>1. DOMAIN inc = 1 .. Len(inc) /\ Len(inc) \in Nat /\ Len(inc) <= MaxIncidents
      /\ \A n \in 1 .. Len(inc) : inc[n] \in Incident
  BY DEF Typed
<1>2. 1 .. Len(inc) \subseteq Numbers
  BY <1>1, Constants DEF Numbers
<1> QED BY <1>1, <1>2 DEF Incident, Times

LEMMA TypeFacts ==
    ASSUME TypeOK
    PROVE  /\ Typed(incidents) /\ clock \in Nat /\ clock <= MaxClock
           /\ job \in [Runs -> JobType] /\ pc \in [Runs -> Places]
           /\ \A r \in Runs : /\ job[r] \in JobType /\ job[r].now \in Nat /\ job[r].send \in BOOLEAN
                              /\ job[r].todo \subseteq Numbers
<1>1. Typed(incidents) /\ job \in [Runs -> JobType] /\ pc \in [Runs -> Places]
  BY DEF TypeOK, Typed, JobType, Places
<1>2. clock \in Nat /\ clock <= MaxClock
  <2>1. clock \in Times
    BY DEF TypeOK
  <2> QED BY <2>1, Constants DEF Times
<1>3. ASSUME NEW j \in JobType PROVE j.now \in Nat /\ j.send \in BOOLEAN /\ j.todo \subseteq Numbers
  <2>1. j.now \in Times /\ j.send \in BOOLEAN /\ j.todo \subseteq Numbers
    BY <1>3 DEF JobType
  <2> QED BY <2>1, Constants DEF Times
<1> QED BY <1>1, <1>2, <1>3

\* An issue that is commented on or edited.
LEMMA EditFacts ==
    ASSUME TypeOK, StampsOK(incidents), NEW n, NEW new \in [1 .. Len(incidents) -> Incident],
           \A m \in DOMAIN incidents : m # n => new[m] = incidents[m],
           n \in DOMAIN incidents =>
              /\ new[n].kind = incidents[n].kind /\ new[n].created = incidents[n].created
              /\ new[n].updated = clock
              /\ incidents[n].state = "human" => new[n].state = "human"
    PROVE  /\ Typed(new) /\ StampsOK(new) /\ Keeps(incidents, new)
           /\ DOMAIN new = DOMAIN incidents
<1> DEFINE L == Len(incidents)
<1>1. /\ DOMAIN incidents = 1 .. L /\ L \in Nat /\ L <= MaxIncidents /\ clock \in Nat
      /\ \A m \in 1 .. L : incidents[m].created \in Nat /\ incidents[m].updated \in Nat
  BY TypeFacts, Entries DEF TypeOK, Typed
<1>2. new \in Seq(Incident) /\ Len(new) = L /\ DOMAIN new = 1 .. L
  BY <1>1
<1>3. StampsOK(new)
  <2>1. \A m \in 1 .. L : incidents[m].created <= incidents[m].updated /\ incidents[m].updated <= clock
    BY <1>1 DEF StampsOK
  <2>2. \A m \in 1 .. L : new[m].created <= new[m].updated /\ new[m].updated <= clock
    BY <1>1, <2>1
  <2> QED BY <1>2, <2>2 DEF StampsOK
<1>4. Keeps(incidents, new)
  BY <1>1, <1>2 DEF Keeps
<1> QED BY <1>1, <1>2, <1>3, <1>4 DEF Typed

LEMMA TouchedIs ==
    ASSUME TypeOK, NEW n
    PROVE  /\ Touched(n) \in [1 .. Len(incidents) -> Incident]
           /\ \A m \in DOMAIN incidents : m # n => Touched(n)[m] = incidents[m]
           /\ n \in DOMAIN incidents =>
                /\ Touched(n)[n].kind = incidents[n].kind /\ Touched(n)[n].created = incidents[n].created
                /\ Touched(n)[n].updated = clock /\ Touched(n)[n].state = incidents[n].state
<1>1. incidents \in [1 .. Len(incidents) -> Incident] /\ clock \in Times
  <2>1. incidents \in Seq(Incident) /\ clock \in Times
    BY DEF TypeOK
  <2> QED BY <2>1
<1> DEFINE old == incidents
           L == Len(incidents)
<1>2. old \in [1 .. L -> Incident] /\ old = incidents
  BY <1>1
<1> HIDE DEF old, L
<1>3. /\ [old EXCEPT ![n].updated = clock] \in [1 .. L -> Incident]
      /\ \A m \in 1 .. L : m # n => [old EXCEPT ![n].updated = clock][m] = old[m]
      /\ n \in 1 .. L => [old EXCEPT ![n].updated = clock][n] = [old[n] EXCEPT !.updated = clock]
  <2>1. \A x \in Incident : [x EXCEPT !.updated = clock] \in Incident
    BY <1>1 DEF Incident
  <2> QED BY <1>2, <2>1
<1>4. ASSUME NEW x \in Incident
      PROVE  /\ [x EXCEPT !.updated = clock].kind = x.kind /\ [x EXCEPT !.updated = clock].created = x.created
             /\ [x EXCEPT !.updated = clock].updated = clock /\ [x EXCEPT !.updated = clock].state = x.state
  BY DEF Incident
<1> QED BY <1>2, <1>3, <1>4 DEF Touched, L

LEMMA TouchFacts ==
    ASSUME TypeOK, StampsOK(incidents), NEW n
    PROVE  /\ Typed(Touched(n)) /\ StampsOK(Touched(n)) /\ Keeps(incidents, Touched(n))
           /\ DOMAIN Touched(n) = DOMAIN incidents
           /\ \A m \in DOMAIN incidents : Touched(n)[m].state = incidents[m].state
<1> DEFINE new == Touched(n)
<1>1. /\ new \in [1 .. Len(incidents) -> Incident]
      /\ \A m \in DOMAIN incidents : m # n => new[m] = incidents[m]
      /\ n \in DOMAIN incidents =>
           /\ new[n].kind = incidents[n].kind /\ new[n].created = incidents[n].created
           /\ new[n].updated = clock /\ new[n].state = incidents[n].state
  BY TouchedIs
<1> HIDE DEF new
<1>2. /\ Typed(new) /\ StampsOK(new) /\ Keeps(incidents, new) /\ DOMAIN new = DOMAIN incidents
  BY <1>1, EditFacts
<1>3. \A m \in DOMAIN incidents : new[m].state = incidents[m].state
  BY <1>1
<1> QED BY <1>2, <1>3 DEF new

\* An issue whose state is edited.
Marked(n, state) == [Touched(n) EXCEPT ![n].state = state]

LEMMA StateFacts ==
    ASSUME TypeOK, StampsOK(incidents), NEW n \in DOMAIN incidents, NEW state \in {"open", "closed", "human"},
           incidents[n].state = "human" => state = "human",
           NEW new, new = Marked(n, state)
    PROVE  /\ Typed(new) /\ StampsOK(new) /\ Keeps(incidents, new) /\ DOMAIN new = DOMAIN incidents
           /\ \A m \in DOMAIN incidents : m # n => new[m] = incidents[m]
           /\ new[n].state = state
<1> DEFINE t == Touched(n)
           L == Len(incidents)
<1>1. /\ t \in [1 .. L -> Incident]
      /\ \A m \in DOMAIN incidents : m # n => t[m] = incidents[m]
      /\ t[n].kind = incidents[n].kind /\ t[n].created = incidents[n].created
      /\ t[n].updated = clock
  BY TouchedIs
<1>2. n \in 1 .. L /\ DOMAIN incidents = 1 .. L
  BY TypeFacts, Entries
<1>3. new = [t EXCEPT ![n].state = state]
  BY DEF Marked
<1> HIDE DEF t, L
<1>4. \A x \in Incident : [x EXCEPT !.state = state] \in Incident
  BY DEF Incident
<1>5. /\ new \in [1 .. L -> Incident] /\ \A m \in 1 .. L : m # n => new[m] = t[m]
      /\ new[n] = [t[n] EXCEPT !.state = state] /\ t[n] \in Incident
  BY <1>1, <1>2, <1>3, <1>4
<1>6. /\ new[n].kind = t[n].kind /\ new[n].created = t[n].created
      /\ new[n].updated = t[n].updated /\ new[n].state = state
  BY <1>5 DEF Incident
<1>7. \A m \in DOMAIN incidents : m # n => new[m] = incidents[m]
  BY <1>1, <1>2, <1>5
<1>8. new \in [1 .. Len(incidents) -> Incident]
  BY <1>5 DEF L
<1>9. /\ new[n].kind = incidents[n].kind /\ new[n].created = incidents[n].created
      /\ new[n].updated = clock
      /\ incidents[n].state = "human" => new[n].state = "human"
  BY <1>1, <1>6
<1>10. Typed(new) /\ StampsOK(new) /\ Keeps(incidents, new) /\ DOMAIN new = DOMAIN incidents
  BY <1>7, <1>8, <1>9, EditFacts
<1> QED BY <1>6, <1>7, <1>10

\* A new issue.
LEMMA OpenFacts ==
    ASSUME NEW inc, Typed(inc), StampsOK(inc), clock \in Times, NEW k \in Kinds, Len(inc) < MaxIncidents,
           NEW x, x = [kind |-> k, created |-> clock, updated |-> clock, state |-> "open"]
    PROVE  /\ Typed(Append(inc, x)) /\ StampsOK(Append(inc, x)) /\ Keeps(inc, Append(inc, x))
           /\ DOMAIN Append(inc, x) = 1 .. Len(inc) + 1 /\ Len(Append(inc, x)) = Len(inc) + 1
           /\ \A n \in DOMAIN inc : Append(inc, x)[n] = inc[n]
           /\ Append(inc, x)[Len(inc) + 1] = x
<1>1. inc \in Seq(Incident) /\ Len(inc) \in Nat /\ DOMAIN inc = 1 .. Len(inc)
  BY Entries DEF Typed
<1>2. x \in Incident
  BY DEF Incident
<1> DEFINE new == Append(inc, x)
<1>3. /\ new \in Seq(Incident) /\ Len(new) = Len(inc) + 1 /\ DOMAIN new = 1 .. Len(inc) + 1
      /\ \A n \in DOMAIN inc : new[n] = inc[n]
      /\ new[Len(inc) + 1] = x
  BY <1>1, <1>2
<1> HIDE DEF new
<1>4. Typed(new)
  BY <1>1, <1>3, Constants DEF Typed
<1>5. \A n \in DOMAIN new : n \in DOMAIN inc \/ n = Len(inc) + 1
  BY <1>1, <1>3
<1>6. StampsOK(new)
  <2>1. x.created = clock /\ x.updated = clock /\ clock <= clock
    BY Constants DEF Times
  <2> QED BY <1>3, <1>5, <2>1 DEF StampsOK
<1>7. Keeps(inc, new)
  BY <1>1, <1>3, <1>5 DEF Keeps
<1> QED BY <1>3, <1>4, <1>6, <1>7 DEF new

-----------------------------------------------------------------------------
(* What a step leaves true                                                 *)

LEMMA HumanStays ==
    ASSUME NEW k, Keeps(incidents, incidents'), ByHuman(incidents, k)
    PROVE  ByHuman(incidents', k)
BY DEF Keeps, ByHuman

\* A step that decides no re-check: it may take items off a list, close what was
\* on one, and end or start jobs.
Calm ==
    /\ \A s \in Runs : /\ job'[s].todo \subseteq job[s].todo
                       /\ job'[s].todo # {} => job'[s].send = job[s].send
                       /\ Coordinating /\ WonRun(s)' => WonRun(s) /\ job'[s].now = job[s].now
    /\ \A s \in Runs : \A n \in Numbers : Rechecks(s, n)' => Rechecks(s, n) \/ n \notin DOMAIN incidents
    /\ \A n \in DOMAIN incidents : incidents'[n].state = "closed" =>
          incidents[n].state = "closed" \/ \E s \in Runs : n \in job[s].todo

\* Of earlier incidents alone: what is new comes after all others.
LEMMA AloneStays ==
    ASSUME NEW inc, NEW new, Typed(inc), Typed(new), Keeps(inc, new), NEW lost, NEW more, lost \subseteq more,
           NEW n \in DOMAIN inc, NEW k, NEW time, Alone(inc, lost, n, k, time)
    PROVE  Alone(new, more, n, k, time)
<1>1. /\ DOMAIN inc = 1 .. Len(inc) /\ Len(inc) \in Nat
      /\ DOMAIN new = 1 .. Len(new) /\ Len(new) \in Nat
  BY Entries
<1>2. \A x \in DOMAIN new : x < n => x \in DOMAIN inc
  BY <1>1
<1> QED BY <1>2 DEF Alone, Keeps

LEMMA CalmCoordinated ==
    ASSUME IInv, Typed(incidents'), Keeps(incidents, incidents'), Calm,
           NEW lost, NEW won, Coordinated(lost, won)
    PROVE  Coordinated(lost, won)'
<1>1. Typed(incidents) /\ DOMAIN incidents \subseteq Numbers
  BY TypeFacts, Entries DEF IInv
<1>2. lost \subseteq DOMAIN incidents /\ won \subseteq DOMAIN incidents
  BY DEF Coordinated, SetsOK
<1>3. SetsOK(lost, won)'
  BY <1>2 DEF Coordinated, SetsOK, Calm, Keeps
<1>4. LostOK(lost)'
  <2>1. ASSUME NEW x \in lost
        PROVE  \E m \in DOMAIN incidents' : m < x /\ incidents'[m].kind = incidents'[x].kind
    BY <1>2 DEF Coordinated, LostOK, Keeps
  <2>2. ASSUME NEW r \in Runs, NEW n \in job'[r].todo, ~job'[r].send PROVE n \in lost
    <3>1. n \in job[r].todo /\ ~job[r].send
      BY <2>2 DEF Calm
    <3> QED BY <3>1 DEF Coordinated, LostOK
  <2> QED BY <2>1, <2>2 DEF LostOK
<1>5. SupersededOK(lost, won)'
  <2> SUFFICES ASSUME NEW x \in DOMAIN incidents', x \notin lost, Doomed(x)'
               PROVE  \E z \in won : /\ incidents'[z].kind = incidents'[x].kind
                                     /\ incidents'[x].created + Window < incidents'[z].created
    BY DEF SupersededOK
  <2>1. x \in DOMAIN incidents /\ Doomed(x)
    <3>1. CASE incidents'[x].state = "closed"
      <4>1. x \in DOMAIN incidents
        BY <3>1 DEF Keeps
      <4>2. ASSUME NEW s \in Runs, x \in job[s].todo PROVE job[s].send
        <5>1. job[s].send \in BOOLEAN
          BY TypeFacts DEF IInv
        <5> QED BY <4>2, <5>1 DEF Coordinated, LostOK
      <4> QED BY <3>1, <4>1, <4>2 DEF Calm, Doomed
    <3>2. CASE \E s \in Runs : job'[s].send /\ x \in job'[s].todo
      <4>1. PICK s \in Runs : job'[s].send /\ x \in job'[s].todo
        BY <3>2
      <4>2. job[s].send /\ x \in job[s].todo
        BY <4>1 DEF Calm
      <4>3. x \in DOMAIN incidents
        BY <4>2 DEF IInv, JobOK, OfKind
      <4> QED BY <4>2, <4>3 DEF Doomed
    <3> QED BY <3>1, <3>2 DEF Doomed
  <2>2. PICK z \in won : /\ incidents[z].kind = incidents[x].kind
                         /\ incidents[x].created + Window < incidents[z].created
    BY <2>1 DEF Coordinated, SupersededOK
  <2> QED BY <1>2, <2>1, <2>2 DEF Keeps
<1>6. WonOK(lost, won)'
  <2> SUFFICES ASSUME Coordinating, NEW y \in won
               PROVE  \/ ByHuman(incidents', incidents'[y].kind)
                      \/ Alone(incidents', lost, y, incidents'[y].kind, incidents'[y].created)
    BY DEF WonOK, Coordinating
  <2> DEFINE k == incidents[y].kind
             time == incidents[y].created
  <2>1. y \in DOMAIN incidents /\ incidents'[y].kind = k /\ incidents'[y].created = time
    BY <1>2 DEF Keeps
  <2>2. ByHuman(incidents, incidents[y].kind) \/ Alone(incidents, lost, y, k, time)
    BY DEF Coordinated, WonOK
  <2>3. CASE ByHuman(incidents, incidents[y].kind)
    BY <2>1, <2>3 DEF Keeps, ByHuman
  <2>4. CASE Alone(incidents, lost, y, k, time)
    <3> HIDE DEF k, time
    <3>1. Alone(incidents', lost, y, k, time)
      BY <1>1, <2>1, <2>4, AloneStays
    <3> QED BY <2>1, <3>1
  <2> QED BY <2>2, <2>3, <2>4
<1>7. WinnersOK(lost, won)'
  <2> SUFFICES ASSUME Coordinating, NEW r \in Runs, WonRun(r)'
               PROVE  \/ ByHuman(incidents', KindOf[r])
                      \/ \E a \in won : /\ incidents'[a].kind = KindOf[r] /\ job'[r].now <= incidents'[a].created
                                        /\ Alone(incidents', lost, a, KindOf[r], job'[r].now)
    BY DEF WinnersOK, Coordinating
  <2>1. WonRun(r) /\ job'[r].now = job[r].now
    BY DEF Calm
  <2>2. CASE ByHuman(incidents, KindOf[r])
    BY <2>2, HumanStays
  <2>3. CASE ~ByHuman(incidents, KindOf[r])
    <3>1. PICK a \in won : /\ incidents[a].kind = KindOf[r] /\ job[r].now <= incidents[a].created
                           /\ Alone(incidents, lost, a, KindOf[r], job[r].now)
      BY <2>1, <2>3 DEF Coordinated, WinnersOK
    <3>2. a \in DOMAIN incidents
      BY <1>2
    <3> DEFINE time == job[r].now
    <3>3. job'[r].now = time
      BY <2>1
    <3> HIDE DEF time
    <3>4. Alone(incidents', lost, a, KindOf[r], time)
      BY <1>1, <3>1, <3>2, AloneStays DEF time
    <3> QED BY <2>1, <3>1, <3>2, <3>3, <3>4 DEF Keeps, time
  <2> QED BY <2>2, <2>3
<1> QED BY <1>3, <1>4, <1>5, <1>6, <1>7 DEF Coordinated

LEMMA CalmWinners ==
    ASSUME IInv, Keeps(incidents, incidents'), Calm
    PROVE  WinnersApart'
<1> SUFFICES ASSUME Coordinating, NEW p \in Runs, NEW q \in Runs, p # q, KindOf[p] = KindOf[q],
                    WonRun(p)', WonRun(q)'
             PROVE  ByHuman(incidents', KindOf[p]) \/ Apart(p, q)'
  BY DEF WinnersApart, Coordinating
<1>1. /\ WonRun(p) /\ job'[p].now = job[p].now
      /\ WonRun(q) /\ job'[q].now = job[q].now
  BY DEF Calm
<1>2. ByHuman(incidents, KindOf[p]) \/ Apart(p, q)
  BY <1>1 DEF IInv, WinnersApart
<1> QED BY <1>1, <1>2, HumanStays DEF Apart

-----------------------------------------------------------------------------
(* The re-check                                                            *)

LEMMA RecheckFacts ==
    ASSUME IInv, NEW r \in Runs, pc[r] = "recheck", NEW lost, NEW won, Coordinated(lost, won)
    PROVE  /\ job[r].number \in DOMAIN incidents /\ incidents[job[r].number].kind = KindOf[r]
           /\ job[r].number \in Numbers
           /\ job[r].number \notin lost /\ job[r].number \notin won
           /\ job[r].now <= incidents[job[r].number].created
           /\ job[r].now <= clock /\ clock <= job[r].now + JobMax
           /\ job[r].send = TRUE /\ job[r].number \in Contenders(r)
           /\ \A s \in Runs : \A m \in Numbers : s # r /\ Rechecks(s, m) => m # job[r].number
<1> DEFINE n == job[r].number
<1>1. /\ n \in DOMAIN incidents /\ incidents[n].kind = KindOf[r] /\ job[r].now <= incidents[n].created
      /\ job[r].now <= clock /\ clock <= job[r].now + JobMax /\ job[r].send
  BY DEF IInv, JobOK, OfKind, Ended
<1>2. n \in Numbers /\ job[r].send \in BOOLEAN
  BY <1>1, TypeFacts, Entries DEF IInv
<1>3. Rechecks(r, n)
  BY DEF Rechecks
<1>4. n \notin lost /\ n \notin won
  BY <1>2, <1>3 DEF Coordinated, SetsOK
<1>5. \A s \in Runs : \A m \in Numbers : s # r /\ Rechecks(s, m) => m # n
  BY <1>2, <1>3 DEF IInv, OwnersDiffer
<1> QED BY <1>1, <1>2, <1>4, <1>5 DEF Contenders

LEMMA LoseStep ==
    ASSUME IInv, NEW r \in Runs, pc[r] = "recheck", NEW n, n = job[r].number, ~Winner(n, Contenders(r)),
           NEW lost, NEW won, Coordinated(lost, won), UNCHANGED incidents,
           \A s \in Runs : s # r => job'[s] = job[s] /\ pc'[s] = pc[s],
           job'[r].send = FALSE, job'[r].todo = {n}, pc'[r] = "note"
    PROVE  Coordinated(lost \union {n}, won)' /\ WinnersApart'
<1> DEFINE more == lost \union {n}
<1>1. /\ n \in DOMAIN incidents /\ incidents[n].kind = KindOf[r] /\ n \in Numbers
      /\ n \notin lost /\ n \notin won /\ n \in Contenders(r)
      /\ \A s \in Runs : \A m \in Numbers : s # r /\ Rechecks(s, m) => m # n
  BY RecheckFacts
<1>2. Typed(incidents) /\ DOMAIN incidents \subseteq Nat /\ Keeps(incidents, incidents)
      /\ lost \subseteq DOMAIN incidents /\ won \subseteq DOMAIN incidents
  BY TypeFacts, Entries DEF IInv, Keeps, Coordinated, SetsOK
<1>3. SetsOK(more, won)'
  <2>1. \A s \in Runs : \A m \in Numbers : Rechecks(s, m)' => s # r /\ Rechecks(s, m)
    BY DEF Rechecks
  <2>2. \A s \in Runs : \A m \in Numbers : Rechecks(s, m)' => m \notin more /\ m \notin won
    BY <1>1, <2>1 DEF Coordinated, SetsOK
  <2> QED BY <1>1, <2>2 DEF Coordinated, SetsOK
<1>4. \E m \in DOMAIN incidents : m < n /\ incidents[m].kind = incidents[n].kind
  <2>1. PICK m \in Contenders(r) : ~(n <= m)
    BY <1>1 DEF Winner, Lowest
  <2>2. m # n /\ m \in DOMAIN incidents /\ incidents[m].kind = KindOf[r]
    BY <1>1, <1>2, <2>1 DEF Contenders, OpenIncidents
  <2> QED BY <1>1, <1>2, <2>1, <2>2
<1>5. LostOK(more)'
  <2>1. \A s \in Runs : \A m \in job'[s].todo : ~job'[s].send => m \in more
    BY DEF Coordinated, LostOK
  <2> QED BY <1>4, <2>1 DEF Coordinated, LostOK
<1>6. SupersededOK(more, won)'
  <2> SUFFICES ASSUME NEW x \in DOMAIN incidents, x \notin more, Doomed(x)'
               PROVE  \E z \in won : /\ incidents[z].kind = incidents[x].kind
                                     /\ incidents[x].created + Window < incidents[z].created
    BY DEF SupersededOK
  <2>1. x \notin lost /\ Doomed(x)
    BY DEF Doomed
  <2> QED BY <2>1 DEF Coordinated, SupersededOK
<1>7. \A a \in DOMAIN incidents : \A k, time :
        Alone(incidents, lost, a, k, time) => Alone(incidents, more, a, k, time)
  BY <1>2, AloneStays
<1>8. \A s \in Runs : WonRun(s)' => s # r /\ WonRun(s) /\ job'[s].now = job[s].now
  BY DEF WonRun
<1> HIDE DEF more
<1>9. WonOK(more, won)'
  BY <1>2, <1>7 DEF Coordinated, WonOK, Coordinating
<1>10. WinnersOK(more, won)'
  <2> SUFFICES ASSUME Coordinating, NEW s \in Runs, WonRun(s)', ~ByHuman(incidents, KindOf[s])
               PROVE  \E a \in won : /\ incidents[a].kind = KindOf[s] /\ job'[s].now <= incidents[a].created
                                     /\ Alone(incidents, more, a, KindOf[s], job'[s].now)
    BY DEF WinnersOK, Coordinating
  <2>1. PICK a \in won : /\ incidents[a].kind = KindOf[s] /\ job[s].now <= incidents[a].created
                         /\ Alone(incidents, lost, a, KindOf[s], job[s].now)
    BY <1>8 DEF Coordinated, WinnersOK
  <2> QED BY <1>2, <1>7, <1>8, <2>1
<1>11. WinnersApart'
  BY <1>8 DEF IInv, WinnersApart, Apart, Coordinating
<1> QED BY <1>3, <1>5, <1>6, <1>9, <1>10, <1>11 DEF Coordinated, more

\* No incident that comes before a winner and has not lost is in its window:
\* it would be a contender; were it closed, then for a later one that has won
\* and is one; and that one has found the winner's among its own contenders.
LEMMA WinnerIsAlone ==
    ASSUME IInv, NEW r \in Runs, pc[r] = "recheck", NEW n, n = job[r].number, Winner(n, Contenders(r)),
           NEW lost, NEW won, Coordinated(lost, won), Coordinating, ~ByHuman(incidents, KindOf[r])
    PROVE  Alone(incidents, lost, n, KindOf[r], job[r].now)
<1> DEFINE now == job[r].now
           made(x) == incidents[x].created
<1>1. /\ n \in DOMAIN incidents /\ incidents[n].kind = KindOf[r]
      /\ n \notin lost /\ n \notin won
      /\ now <= made(n) /\ now <= clock /\ clock <= now + JobMax
  BY RecheckFacts
<1>2. /\ Typed(incidents) /\ DOMAIN incidents \subseteq Nat /\ clock \in Nat /\ now \in Nat
      /\ JobMax \in Nat /\ Skew \in Nat /\ Window \in Nat /\ JobMax <= Skew /\ JobMax <= Window
      /\ won \subseteq DOMAIN incidents
  BY TypeFacts, Entries, Constants DEF IInv, Coordinating, Coordinated, SetsOK
<1>3. \A x \in DOMAIN incidents :
        /\ made(x) \in Nat /\ made(x) <= clock /\ incidents[x].state \in {"open", "closed", "human"}
        /\ incidents[x].kind = KindOf[r] => incidents[x].state # "human"
  <2>1. ASSUME NEW x \in DOMAIN incidents
        PROVE  made(x) \in Nat /\ incidents[x].updated \in Nat
               /\ incidents[x].state \in {"open", "closed", "human"}
    BY <1>2, Entries
  <2> QED BY <1>2, <2>1 DEF IInv, StampsOK, ByHuman
<1>4. ASSUME NEW x \in DOMAIN incidents, incidents[x].kind = KindOf[r], now <= made(x) + Window,
             incidents[x].state = "open"
      PROVE  n <= x
  <2>1. Within(made(x), now)
    <3> DEFINE t == made(x)
    <3>1. t \in Nat /\ t <= clock /\ now <= t + Window
      BY <1>3, <1>4
    <3> HIDE DEF t, now
    <3>2. -Skew <= now - t /\ now - t <= Window
      BY <1>1, <1>2, <3>1
    <3> QED BY <3>2 DEF Within, t
  <2>2. x \in Contenders(r)
    BY <1>4, <2>1 DEF Contenders, OpenIncidents
  <2> QED BY <2>2 DEF Winner, Lowest
<1> SUFFICES ASSUME NEW x \in DOMAIN incidents, x < n, incidents[x].kind = KindOf[r], x \notin lost,
                    ~(made(x) + Window < now)
             PROVE  FALSE
  BY DEF Alone
<1>5. now <= made(x) + Window
  BY <1>2, <1>3
<1>6. incidents[x].state = "closed"
  <2>1. ~(n <= x)
    BY <1>1, <1>2
  <2> QED BY <1>3, <1>4, <1>5, <2>1
<1>7. PICK z \in won : incidents[z].kind = KindOf[r] /\ made(x) + Window < made(z)
  BY <1>6 DEF Coordinated, SupersededOK, Doomed
<1>8. z \in DOMAIN incidents /\ now < made(z)
  BY <1>2, <1>3, <1>5, <1>7
<1>9. incidents[z].state = "open"
  <2> SUFFICES ASSUME incidents[z].state = "closed" PROVE FALSE
    BY <1>3, <1>7, <1>8
  <2>1. z \notin lost
    BY DEF Coordinated, SetsOK
  <2>2. PICK y \in won : made(z) + Window < made(y)
    BY <1>8, <2>1 DEF Coordinated, SupersededOK, Doomed
  <2>3. made(y) <= clock /\ made(y) \in Nat /\ made(z) \in Nat
    BY <1>2, <1>3, <1>8
  <2> QED BY <1>1, <1>2, <1>8, <2>2, <2>3
<1>10. n < z
  <2>1. now <= made(z) + Window
    BY <1>2, <1>3, <1>8
  <2>2. n <= z
    BY <1>4, <1>7, <1>8, <1>9, <2>1
  <2>3. n # z
    BY <1>1
  <2> QED BY <1>1, <1>2, <1>8, <2>2, <2>3
<1>11. made(n) + Window < made(z)
  <2>1. Alone(incidents, lost, z, incidents[z].kind, made(z))
    BY <1>7 DEF Coordinated, WonOK
  <2> QED BY <1>1, <1>7, <1>10, <2>1 DEF Alone
<1> QED
  <2>1. made(z) <= clock /\ made(z) \in Nat /\ made(n) \in Nat
    BY <1>1, <1>3, <1>8
  <2> QED BY <1>1, <1>2, <1>11, <2>1

LEMMA OlderFacts ==
    ASSUME IInv, NEW r \in Runs, job[r].now <= clock, clock <= job[r].now + JobMax, NEW x \in Older(r)
    PROVE  /\ x \in DOMAIN incidents /\ incidents[x].kind = KindOf[r] /\ x \in Numbers
           /\ incidents[x].created + Window < job[r].now
<1> DEFINE now == job[r].now
           made == incidents[x].created
           stamp == incidents[x].updated
<1>1. /\ x \in DOMAIN incidents /\ incidents[x].kind = KindOf[r]
      /\ ~(-Skew <= now - stamp /\ now - stamp <= Window)
  BY DEF Older, OpenIncidents, Within
<1>2. /\ made \in Nat /\ stamp \in Nat /\ x \in Numbers /\ clock \in Nat /\ now \in Nat
      /\ JobMax \in Nat /\ Skew \in Nat /\ Window \in Nat /\ JobMax <= Skew
  BY <1>1, TypeFacts, Entries, Constants DEF IInv
<1>3. made <= stamp /\ stamp <= clock
  BY <1>1 DEF IInv, StampsOK
<1>4. now <= clock /\ clock <= now + JobMax
  OBVIOUS
<1> HIDE DEF now, made, stamp
<1>5. made + Window < now
  BY <1>1, <1>2, <1>3, <1>4
<1> QED BY <1>1, <1>2, <1>5 DEF now, made

LEMMA WinStep ==
    ASSUME IInv, NEW r \in Runs, pc[r] = "recheck", NEW n, n = job[r].number, Winner(n, Contenders(r)),
           NEW lost, NEW won, Coordinated(lost, won), UNCHANGED incidents,
           \A s \in Runs : s # r => job'[s] = job[s] /\ pc'[s] = pc[s],
           job'[r].now = job[r].now, job'[r].send = TRUE, job'[r].todo = Older(r), pc'[r] # "recheck"
    PROVE  Coordinated(lost, won \union {n})' /\ WinnersApart'
<1> DEFINE more == won \union {n}
           made(x) == incidents[x].created
<1>1. /\ n \in DOMAIN incidents /\ incidents[n].kind = KindOf[r] /\ n \in Numbers
      /\ n \notin lost /\ n \notin won /\ job[r].now <= made(n)
      /\ job[r].now <= clock /\ clock <= job[r].now + JobMax
      /\ \A s \in Runs : \A m \in Numbers : s # r /\ Rechecks(s, m) => m # n
  BY RecheckFacts
<1>2. /\ DOMAIN incidents \subseteq Nat /\ \A x \in DOMAIN incidents : made(x) \in Nat
      /\ \A s \in Runs : job[s].now \in Nat
      /\ lost \subseteq DOMAIN incidents /\ won \subseteq DOMAIN incidents
      /\ Window \in Nat
  BY TypeFacts, Entries, Constants DEF IInv, Coordinated, SetsOK
<1>3. SetsOK(lost, more)'
  <2>1. \A s \in Runs : \A m \in Numbers : Rechecks(s, m)' => s # r /\ Rechecks(s, m)
    BY DEF Rechecks
  <2>2. \A s \in Runs : \A m \in Numbers : Rechecks(s, m)' => m \notin lost /\ m \notin more
    BY <1>1, <2>1 DEF Coordinated, SetsOK
  <2> QED BY <1>1, <2>2 DEF Coordinated, SetsOK
<1>4. LostOK(lost)'
  <2>1. \A s \in Runs : \A m \in job'[s].todo : ~job'[s].send => m \in lost
    BY DEF Coordinated, LostOK
  <2> QED BY <2>1 DEF Coordinated, LostOK
<1>5. SupersededOK(lost, more)'
  <2> SUFFICES ASSUME NEW x \in DOMAIN incidents, x \notin lost, Doomed(x)'
               PROVE  \E z \in more : incidents[z].kind = incidents[x].kind /\ made(x) + Window < made(z)
    BY DEF SupersededOK
  <2>1. CASE x \in Older(r)
    <3>1. incidents[x].kind = KindOf[r] /\ made(x) + Window < job[r].now
      BY <1>1, <2>1, OlderFacts
    <3>2. made(x) \in Nat /\ made(n) \in Nat /\ job[r].now \in Nat
      BY <1>1, <1>2
    <3>3. made(x) + Window < made(n)
      BY <1>1, <1>2, <3>1, <3>2
    <3> QED BY <1>1, <3>1, <3>3
  <2>2. CASE x \notin Older(r)
    <3>1. Doomed(x)
      BY <2>2 DEF Doomed
    <3> QED BY <3>1 DEF Coordinated, SupersededOK
  <2> QED BY <2>1, <2>2
<1>6. Coordinating => ByHuman(incidents, KindOf[r]) \/ Alone(incidents, lost, n, KindOf[r], job[r].now)
  BY WinnerIsAlone
<1>7. WonOK(lost, more)'
  <2> SUFFICES ASSUME Coordinating, NEW y \in more, ~ByHuman(incidents, incidents[y].kind)
               PROVE  Alone(incidents, lost, y, incidents[y].kind, made(y))
    BY DEF WonOK, Coordinating
  <2>1. CASE y = n
    <3>1. Alone(incidents, lost, n, KindOf[r], job[r].now)
      BY <1>1, <1>6, <2>1
    <3>2. \A x \in DOMAIN incidents : made(x) + Window < job[r].now => made(x) + Window < made(n)
      BY <1>1, <1>2
    <3> QED BY <1>1, <2>1, <3>1, <3>2 DEF Alone
  <2>2. CASE y \in won
    BY <2>2 DEF Coordinated, WonOK
  <2> QED BY <2>1, <2>2
<1>8. \A s \in Runs : s # r => (WonRun(s)' <=> WonRun(s)) /\ job'[s].now = job[s].now
  BY DEF WonRun
<1>9. WinnersOK(lost, more)'
  <2> SUFFICES ASSUME Coordinating, NEW s \in Runs, WonRun(s)', ~ByHuman(incidents, KindOf[s])
               PROVE  \E a \in more : /\ incidents[a].kind = KindOf[s] /\ job'[s].now <= incidents[a].created
                                      /\ Alone(incidents, lost, a, KindOf[s], job'[s].now)
    BY DEF WinnersOK, Coordinating
  <2>1. CASE s = r
    BY <1>1, <1>6, <2>1
  <2>2. CASE s # r
    BY <1>8, <2>2 DEF Coordinated, WinnersOK
  <2> QED BY <2>1, <2>2
<1>10. ASSUME NEW q \in Runs, q # r, KindOf[q] = KindOf[r], WonRun(q), Coordinating,
              ~ByHuman(incidents, KindOf[r])
       PROVE  Apart(q, r)
  <2>1. PICK a \in won : /\ incidents[a].kind = KindOf[r] /\ job[q].now <= made(a)
                         /\ Alone(incidents, lost, a, KindOf[r], job[q].now)
    BY <1>10 DEF Coordinated, WinnersOK
  <2>2. /\ a \in DOMAIN incidents /\ a # n /\ a \notin lost /\ a \in Nat /\ n \in Nat
        /\ made(a) \in Nat /\ made(n) \in Nat /\ job[q].now \in Nat /\ job[r].now \in Nat
    BY <1>1, <1>2 DEF Coordinated, SetsOK
  <2>3. CASE a < n
    <3>1. made(a) + Window < job[r].now
      BY <1>6, <1>10, <2>1, <2>2, <2>3 DEF Alone
    <3> QED BY <1>2, <2>1, <2>2, <3>1 DEF Apart
  <2>4. CASE n < a
    <3>1. made(n) + Window < job[q].now
      BY <1>1, <2>1, <2>4 DEF Alone
    <3> QED BY <1>1, <1>2, <2>2, <3>1 DEF Apart
  <2> QED BY <2>2, <2>3, <2>4
<1>11. WinnersApart'
  <2> SUFFICES ASSUME Coordinating, NEW p \in Runs, NEW q \in Runs, p # q, KindOf[p] = KindOf[q],
                      WonRun(p)', WonRun(q)', ~ByHuman(incidents, KindOf[p])
               PROVE  Apart(p, q)'
    BY DEF WinnersApart, Coordinating
  <2>1. job'[p].now = job[p].now /\ job'[q].now = job[q].now
    BY <1>8
  <2>2. Apart(p, q)
    <3>1. CASE p = r
      BY <1>8, <1>10, <3>1 DEF Apart
    <3>2. CASE q = r
      BY <1>8, <1>10, <3>2
    <3>3. CASE p # r /\ q # r
      BY <1>8, <3>3 DEF IInv, WinnersApart
    <3> QED BY <3>1, <3>2, <3>3
  <2> QED BY <2>1, <2>2 DEF Apart
<1> HIDE DEF more
<1> QED BY <1>3, <1>4, <1>5, <1>7, <1>9, <1>11 DEF Coordinated, more

-----------------------------------------------------------------------------
(* One job's step                                                          *)

LEMMA TellersStay ==
    ASSUME IInv, Keeps(incidents, incidents'), NEW r \in Runs,
           \A s \in Runs : s # r => job'[s] = job[s] /\ pc'[s] = pc[s],
           \A n \in DOMAIN incidents :
              FirstOfKind(n) /\ incidents[n].kind = KindOf[r] /\ Teller(r, n) => Teller(r, n)',
           \A n \in DOMAIN incidents' : n \notin DOMAIN incidents =>
              \/ \E m \in DOMAIN incidents' : m < n /\ incidents'[m].kind = incidents'[n].kind
              \/ incidents'[n].kind = KindOf[r] /\ Teller(r, n)'
    PROVE  TellersOK'
<1> SUFFICES ASSUME NEW n \in DOMAIN incidents', FirstOfKind(n)'
             PROVE  \E s \in Runs : KindOf[s] = incidents'[n].kind /\ Teller(s, n)'
  BY DEF TellersOK
<1>1. CASE n \in DOMAIN incidents
  <2>1. FirstOfKind(n) /\ incidents'[n].kind = incidents[n].kind
    BY <1>1 DEF FirstOfKind, Keeps
  <2>2. PICK s \in Runs : KindOf[s] = incidents[n].kind /\ Teller(s, n)
    BY <1>1, <2>1 DEF IInv, TellersOK
  <2>3. Teller(s, n)'
    <3>1. CASE s = r
      BY <1>1, <2>1, <2>2, <3>1
    <3>2. CASE s # r
      BY <2>2, <3>2 DEF Teller, TellerAt
    <3> QED BY <3>1, <3>2
  <2> QED BY <2>1, <2>2, <2>3
<1>2. CASE n \notin DOMAIN incidents
  BY <1>2 DEF FirstOfKind
<1> QED BY <1>1, <1>2

LEMMA JobStep ==
    ASSUME IInv, NEW r \in Runs, NEW d \in JobType, NEW at \in Places,
           job' = [job EXCEPT ![r] = d], pc' = [pc EXCEPT ![r] = at], clock' = clock,
           Typed(incidents'), StampsOK(incidents'), Keeps(incidents, incidents'),
           JobOK(r, d, at, incidents'),
           at = "recheck" => d.number \notin DOMAIN incidents,
           TellersOK', WinnersApart', \E lost, won \in SUBSET Numbers : Coordinated(lost, won)'
    PROVE  IInv'
<1>1. /\ Typed(incidents) /\ job \in [Runs -> JobType] /\ pc \in [Runs -> Places]
      /\ job'[r] = d /\ pc'[r] = at
      /\ \A s \in Runs : s # r => job'[s] = job[s] /\ pc'[s] = pc[s]
  BY TypeFacts DEF IInv
<1>2. TypeOK'
  <2>1. job' \in [Runs -> JobType] /\ pc' \in [Runs -> Places]
    BY <1>1
  <2>2. clock' \in Times
    BY DEF IInv, TypeOK
  <2> QED BY <2>1, <2>2 DEF TypeOK, Typed, JobType, Places
<1>3. StampsOK(incidents)'
  BY DEF StampsOK
<1>4. (\A s \in Runs : JobOK(s, job[s], pc[s], incidents))'
  <2> SUFFICES ASSUME NEW s \in Runs PROVE JobOK(s, job[s], pc[s], incidents)'
    OBVIOUS
  <2>1. CASE s = r
    BY <1>1, <2>1 DEF JobOK
  <2>2. CASE s # r
    <3>1. JobOK(s, job[s], pc[s], incidents) /\ job'[s] = job[s] /\ pc'[s] = pc[s]
      BY <1>1, <2>2 DEF IInv
    <3>2. \A n, k : OfKind(incidents, n, k) => OfKind(incidents', n, k)
      BY DEF OfKind, Keeps
    <3>3. \A n : OfKind(incidents, n, KindOf[s]) => incidents'[n].created = incidents[n].created
                                                   /\ n \in DOMAIN incidents'
      BY DEF OfKind, Keeps
    <3>4. \A n : OfKind(incidents, n, KindOf[s]) => n \in DOMAIN incidents
      BY DEF OfKind
    <3> QED BY <3>1, <3>2, <3>3, <3>4 DEF JobOK
  <2> QED BY <2>1, <2>2
<1>5. OwnersDiffer'
  <2> SUFFICES ASSUME NEW p \in Runs, NEW q \in Runs, NEW n \in Numbers, Rechecks(p, n)', Rechecks(q, n)'
               PROVE  p = q
    BY DEF OwnersDiffer
  <2>1. \A s \in Runs : s # r /\ Rechecks(s, n)' => Rechecks(s, n) /\ n \in DOMAIN incidents
    BY <1>1 DEF IInv, JobOK, OfKind, Rechecks
  <2>2. Rechecks(r, n)' => n \notin DOMAIN incidents
    BY <1>1 DEF Rechecks
  <2> QED BY <2>1, <2>2 DEF IInv, OwnersDiffer
<1> QED BY <1>2, <1>3, <1>4, <1>5 DEF IInv

\* A step that decides no re-check.
LEMMA CalmStep ==
    ASSUME IInv, NEW r \in Runs, NEW d \in JobType, NEW at \in Places,
           job' = [job EXCEPT ![r] = d], pc' = [pc EXCEPT ![r] = at], clock' = clock,
           Typed(incidents'), StampsOK(incidents'), Keeps(incidents, incidents'),
           JobOK(r, d, at, incidents'),
           at = "recheck" => d.number \notin DOMAIN incidents,
           \A n \in DOMAIN incidents :
              FirstOfKind(n) /\ incidents[n].kind = KindOf[r] /\ TellerAt(pc[r], job[r], n) => TellerAt(at, d, n),
           \A n \in DOMAIN incidents' : n \notin DOMAIN incidents =>
              \/ \E m \in DOMAIN incidents' : m < n /\ incidents'[m].kind = incidents'[n].kind
              \/ incidents'[n].kind = KindOf[r] /\ TellerAt(at, d, n),
           d.todo \subseteq job[r].todo, d.todo # {} => d.send = job[r].send,
           Coordinating /\ at \in {"note", "close", "send", "done"} /\ d.send /\ d.met = "nothing" =>
              WonRun(r) /\ d.now = job[r].now,
           \A n \in DOMAIN incidents : incidents'[n].state = "closed" =>
              incidents[n].state = "closed" \/ n \in job[r].todo
    PROVE  IInv'
<1>1. /\ job'[r] = d /\ pc'[r] = at
      /\ \A s \in Runs : s # r => job'[s] = job[s] /\ pc'[s] = pc[s]
  BY TypeFacts DEF IInv
<1>2. TellersOK'
  <2>1. \A n : Teller(r, n)' <=> TellerAt(at, d, n)
    BY <1>1 DEF Teller
  <2> QED BY <1>1, <2>1, TellersStay DEF Teller
<1>3. Calm
  <2>1. \A s \in Runs : /\ job'[s].todo \subseteq job[s].todo
                        /\ job'[s].todo # {} => job'[s].send = job[s].send
                        /\ Coordinating /\ WonRun(s)' => WonRun(s) /\ job'[s].now = job[s].now
    <3> SUFFICES ASSUME NEW s \in Runs
                 PROVE  /\ job'[s].todo \subseteq job[s].todo
                        /\ job'[s].todo # {} => job'[s].send = job[s].send
                        /\ Coordinating /\ WonRun(s)' => WonRun(s) /\ job'[s].now = job[s].now
      OBVIOUS
    <3>1. CASE s = r
      BY <1>1, <3>1 DEF WonRun
    <3>2. CASE s # r
      BY <1>1, <3>2 DEF WonRun
    <3> QED BY <3>1, <3>2
  <2>2. \A s \in Runs : \A n \in Numbers : Rechecks(s, n)' => Rechecks(s, n) \/ n \notin DOMAIN incidents
    BY <1>1 DEF Rechecks
  <2> QED BY <2>1, <2>2 DEF Calm
<1>4. \E lost, won \in SUBSET Numbers : Coordinated(lost, won)'
  BY <1>3, CalmCoordinated DEF IInv
<1>5. WinnersApart'
  BY <1>3, CalmWinners
<1> QED BY <1>2, <1>4, <1>5, JobStep

\* A step that creates no incident.
EditedOK(r) ==
    /\ Typed(incidents') /\ StampsOK(incidents') /\ Keeps(incidents, incidents')
    /\ DOMAIN incidents' = DOMAIN incidents
    /\ \A n \in DOMAIN incidents : incidents'[n].state = "closed" =>
          incidents[n].state = "closed" \/ n \in job[r].todo

LEMMA SameIsEdited == ASSUME IInv, NEW r \in Runs, UNCHANGED incidents PROVE EditedOK(r)
BY TypeFacts DEF IInv, EditedOK, Keeps

LEMMA EditStep ==
    ASSUME IInv, NEW r \in Runs, NEW d \in JobType, NEW at \in Places, EditedOK(r),
           job' = [job EXCEPT ![r] = d], pc' = [pc EXCEPT ![r] = at], clock' = clock,
           JobOK(r, d, at, incidents), at # "recheck",
           \A n \in DOMAIN incidents :
              FirstOfKind(n) /\ incidents[n].kind = KindOf[r] /\ TellerAt(pc[r], job[r], n) => TellerAt(at, d, n),
           d.todo \subseteq job[r].todo, d.todo # {} => d.send = job[r].send,
           Coordinating /\ at \in {"note", "close", "send", "done"} /\ d.send /\ d.met = "nothing" =>
              WonRun(r) /\ d.now = job[r].now
    PROVE  IInv'
<1>1. /\ Typed(incidents') /\ StampsOK(incidents') /\ Keeps(incidents, incidents')
      /\ DOMAIN incidents' = DOMAIN incidents
      /\ \A n \in DOMAIN incidents : incidents'[n].state = "closed" =>
           incidents[n].state = "closed" \/ n \in job[r].todo
  BY DEF EditedOK
<1>2. JobOK(r, d, at, incidents')
  BY <1>1 DEF JobOK, OfKind, Keeps
<1> QED BY <1>1, <1>2, CalmStep

\* What a job that is under way has reached.
LEMMA UnderWay ==
    ASSUME IInv, NEW r \in Runs, ~Ended(pc[r])
    PROVE  /\ job[r] \in JobType /\ JobOK(r, job[r], pc[r], incidents)
           /\ job[r].now <= clock /\ clock <= job[r].now + JobMax
           /\ job[r].now \in Nat /\ job[r].send \in BOOLEAN
           /\ job = [job EXCEPT ![r] = job[r]] /\ pc = [pc EXCEPT ![r] = pc[r]]
BY TypeFacts DEF IInv, JobOK

LEMMA ZeroFits == 0 \in 0 .. MaxIncidents /\ {} \in SUBSET Numbers
<1>1. MaxIncidents \in Nat
  BY Constants
<1> QED BY <1>1

LEMMA BlankType == Blank \in JobType /\ Blank.todo = {} /\ ~Blank.late /\ Blank.met = "nothing"
<1> DEFINE t == [c \in Channels |-> "not yet"]
<1>1. t \in [Channels -> {"not yet", "sent", "not sent"}]
  OBVIOUS
<1>2. Blank = [now |-> 0, send |-> TRUE, number |-> 0, todo |-> {}, late |-> FALSE, told |-> t, met |-> "nothing"]
  BY DEF Blank
<1> HIDE DEF t
<1>3. 0 \in Times
  BY Constants DEF Times
<1> QED BY <1>1, <1>2, <1>3, ZeroFits DEF JobType

\* What is left of a job.
Left(now, send, told, met) == [Blank EXCEPT !.now = now, !.send = send, !.told = told, !.met = met]

LEMMA LeftOf ==
    ASSUME NEW j \in JobType
    PROVE  \E d \in JobType : /\ d = Left(j.now, j.send, j.told, j.met)
                              /\ d.now = j.now /\ (d.send <=> j.send) /\ d.told = j.told /\ d.met = j.met
                              /\ d.todo = {} /\ ~d.late
<1>1. /\ j.now \in Times /\ j.send \in BOOLEAN /\ j.told \in [Channels -> {"not yet", "sent", "not sent"}]
      /\ j.met \in {"nothing", "failure", "twice"}
  BY DEF JobType
<1> DEFINE now == j.now
           send == j.send
           told == j.told
           met == j.met
           b == Blank
           d == Left(now, send, told, met)
<1>2. b \in JobType /\ b.todo = {} /\ ~b.late
  BY BlankType
<1>3. d = [b EXCEPT !.now = now, !.send = send, !.told = told, !.met = met]
  BY DEF Left
<1> HIDE DEF now, send, told, met, b, d
<1>4. /\ now \in Times /\ send \in BOOLEAN /\ told \in [Channels -> {"not yet", "sent", "not sent"}]
      /\ met \in {"nothing", "failure", "twice"}
  BY <1>1 DEF now, send, told, met
<1>5. d \in JobType /\ d.now = now /\ d.told = told /\ d.met = met /\ d.todo = {} /\ ~d.late
  BY <1>2, <1>3, <1>4 DEF JobType
<1>6. d.send <=> send
  BY <1>2, <1>3, <1>4 DEF JobType
<1> QED BY <1>5, <1>6 DEF now, send, told, met, d

\* The job ends with what it has decided.
LEMMA EndStep ==
    ASSUME IInv, NEW r \in Runs, pc[r] \in {"join", "note", "close", "send"}, EditedOK(r), clock' = clock,
           NEW j \in JobType, End(r, j), j.now = job[r].now, (j.send <=> job[r].send), j.met = job[r].met
    PROVE  IInv'
<1>2. PICK d \in JobType : /\ d = Left(j.now, j.send, j.told, j.met)
                           /\ d.now = j.now /\ (d.send <=> j.send) /\ d.told = j.told /\ d.met = j.met
                           /\ d.todo = {} /\ ~d.late
  BY LeftOf
<1>1. job' = [job EXCEPT ![r] = d] /\ pc' = [pc EXCEPT ![r] = "done"]
  BY <1>2 DEF End, Keep, Goto, Left
<1>3. ~Ended(pc[r]) /\ "done" \in Places
  BY DEF Ended, Places
<1>4. JobOK(r, job[r], pc[r], incidents) /\ job[r].now <= clock
  BY <1>3, UnderWay
<1>5. JobOK(r, d, "done", incidents)
  BY <1>2, <1>4 DEF JobOK, Ended
<1>6. \A n : TellerAt(pc[r], job[r], n) => TellerAt("done", d, n)
  BY <1>2 DEF TellerAt
<1>7. d.send /\ d.met = "nothing" => WonRun(r) /\ d.now = job[r].now
  BY <1>2, <1>4 DEF WonRun, JobOK
<1> QED BY <1>1, <1>2, <1>3, <1>5, <1>6, <1>7, EditStep

LEMMA JoinStep == ASSUME IInv, NEW r \in Runs, Join(r) PROVE IInv'
<1>1. /\ pc[r] = "join" /\ End(r, job[r]) /\ clock' = clock
      /\ incidents' = Touched(job[r].number) \/ UNCHANGED incidents
  BY DEF Join
<1>2. EditedOK(r)
  <2>1. CASE incidents' = Touched(job[r].number)
    <3> DEFINE n == job[r].number
               new == Touched(n)
    <3>1. /\ Typed(new) /\ StampsOK(new) /\ Keeps(incidents, new) /\ DOMAIN new = DOMAIN incidents
          /\ \A m \in DOMAIN incidents : new[m].state = incidents[m].state
      BY TouchFacts DEF IInv
    <3>2. incidents' = new
      BY <2>1
    <3> HIDE DEF new
    <3> QED BY <3>1, <3>2 DEF EditedOK
  <2>2. CASE UNCHANGED incidents
    BY <2>2, SameIsEdited
  <2> QED BY <1>1, <2>1, <2>2
<1>3. job[r] \in JobType
  BY TypeFacts DEF IInv
<1> QED BY <1>1, <1>2, <1>3, EndStep

\* What a step makes of what a job holds.
Met(j, met) == [j EXCEPT !.met = met]
Joining(j, n) == [j EXCEPT !.send = FALSE, !.number = n]
Opening(j, n) == [j EXCEPT !.number = n]
OpeningTwo(j, n) == [j EXCEPT !.number = n, !.met = "twice"]
GivingWay(j, todo) == [j EXCEPT !.send = FALSE, !.todo = todo]
Closing(j, todo) == [j EXCEPT !.todo = todo]

LEMMA MetFacts ==
    ASSUME NEW j \in JobType, NEW met \in {"nothing", "failure", "twice"}
    PROVE  \E d \in JobType : /\ d = Met(j, met) /\ d.now = j.now /\ (d.send <=> j.send)
                              /\ d.met = met /\ d.todo = j.todo
<1>1. ASSUME NEW d, d = [j EXCEPT !.met = met]
      PROVE  d \in JobType /\ d.now = j.now /\ (d.send <=> j.send) /\ d.met = met /\ d.todo = j.todo
  BY <1>1 DEF JobType
<1> QED BY <1>1 DEF Met

LEMMA JoiningFacts ==
    ASSUME NEW j \in JobType, NEW n \in 0 .. MaxIncidents
    PROVE  \E d \in JobType : /\ d = Joining(j, n) /\ d.now = j.now /\ ~d.send
                              /\ d.met = j.met /\ d.todo = j.todo
<1>1. ASSUME NEW d, d = [j EXCEPT !.send = FALSE, !.number = n]
      PROVE  d \in JobType /\ d.now = j.now /\ ~d.send /\ d.met = j.met /\ d.todo = j.todo
  BY <1>1 DEF JobType
<1> QED BY <1>1 DEF Joining

LEMMA OpeningFacts ==
    ASSUME NEW j \in JobType, NEW n \in 0 .. MaxIncidents
    PROVE  \E d \in JobType : /\ d = Opening(j, n) /\ d.now = j.now /\ (d.send <=> j.send)
                              /\ d.met = j.met /\ d.todo = j.todo /\ d.number = n
<1>1. ASSUME NEW d, d = [j EXCEPT !.number = n]
      PROVE  d \in JobType /\ d.now = j.now /\ (d.send <=> j.send) /\ d.met = j.met /\ d.todo = j.todo /\ d.number = n
  BY <1>1 DEF JobType
<1> QED BY <1>1 DEF Opening

LEMMA OpeningTwoFacts ==
    ASSUME NEW j \in JobType, NEW n \in 0 .. MaxIncidents
    PROVE  \E d \in JobType : /\ d = OpeningTwo(j, n) /\ d.now = j.now /\ (d.send <=> j.send)
                              /\ d.met = "twice" /\ d.todo = j.todo /\ d.number = n
<1>1. ASSUME NEW d, d = [j EXCEPT !.number = n, !.met = "twice"]
      PROVE  d \in JobType /\ d.now = j.now /\ (d.send <=> j.send) /\ d.met = "twice" /\ d.todo = j.todo /\ d.number = n
  BY <1>1 DEF JobType
<1> QED BY <1>1 DEF OpeningTwo

LEMMA GivingWayFacts ==
    ASSUME NEW j \in JobType, NEW todo \in SUBSET Numbers
    PROVE  \E d \in JobType : /\ d = GivingWay(j, todo) /\ d.now = j.now /\ ~d.send
                              /\ d.met = j.met /\ d.todo = todo
<1>1. ASSUME NEW d, d = [j EXCEPT !.send = FALSE, !.todo = todo]
      PROVE  d \in JobType /\ d.now = j.now /\ ~d.send /\ d.met = j.met /\ d.todo = todo
  BY <1>1 DEF JobType
<1> QED BY <1>1 DEF GivingWay

LEMMA ClosingFacts ==
    ASSUME NEW j \in JobType, NEW todo \in SUBSET Numbers
    PROVE  \E d \in JobType : /\ d = Closing(j, todo) /\ d.now = j.now /\ (d.send <=> j.send)
                              /\ d.met = j.met /\ d.todo = todo
<1>1. ASSUME NEW d, d = [j EXCEPT !.todo = todo]
      PROVE  d \in JobType /\ d.now = j.now /\ (d.send <=> j.send) /\ d.met = j.met /\ d.todo = todo
  BY <1>1 DEF JobType
<1> QED BY <1>1 DEF Closing

LEMMA LateFacts ==
    ASSUME NEW j \in JobType
    PROVE  \E d \in JobType : /\ d = Late(j) /\ d.now = j.now /\ (d.send <=> j.send)
                              /\ d.met = j.met /\ d.todo = j.todo /\ d.told = j.told
<1>1. ASSUME NEW d, d = [j EXCEPT !.late = TRUE]
      PROVE  /\ d \in JobType /\ d.now = j.now /\ (d.send <=> j.send)
             /\ d.met = j.met /\ d.todo = j.todo /\ d.told = j.told
  BY <1>1 DEF JobType
<1> QED BY <1>1 DEF Late

LEMMA StartStep == ASSUME IInv, NEW r \in Runs, Start(r) PROVE IInv'
<1>1. clock \in Times /\ clock \in Nat /\ JobMax \in Nat
  BY TypeFacts, Constants DEF IInv, TypeOK
<1>2. PICK d \in JobType : /\ d = [Blank EXCEPT !.now = clock]
                           /\ d.now = clock /\ d.send /\ d.met = "nothing" /\ d.todo = {}
  <2> DEFINE b == Blank
  <2>1. b \in JobType /\ b.send /\ b.todo = {} /\ b.met = "nothing"
    BY BlankType DEF Blank
  <2> HIDE DEF b
  <2>2. \E d \in JobType : /\ d = [b EXCEPT !.now = clock]
                          /\ d.now = clock /\ d.send /\ d.met = "nothing" /\ d.todo = {}
    <3>1. ASSUME NEW d, d = [b EXCEPT !.now = clock]
          PROVE  d \in JobType /\ d.now = clock /\ d.send /\ d.met = "nothing" /\ d.todo = {}
      BY <1>1, <2>1, <3>1 DEF JobType
    <3> QED BY <3>1
  <2> QED BY <2>2 DEF b
<1>3. PICK at \in {"list", "send"} : pc' = [pc EXCEPT ![r] = at] /\ (Enabled => at = "list")
  BY DEF Start, Goto
<1>4. pc[r] = "idle" /\ job' = [job EXCEPT ![r] = d] /\ clock' = clock /\ UNCHANGED incidents
  BY <1>2 DEF Start, Keep
<1>5. EditedOK(r) /\ at \in Places
  BY <1>4, SameIsEdited DEF Places
<1>6. JobOK(r, d, at, incidents)
  BY <1>1, <1>2 DEF JobOK
<1>7. ~TellerAt("idle", job[r], 0) /\ job[r].met = "nothing"
  BY <1>4 DEF IInv, JobOK, TellerAt
<1>8. \A n : ~TellerAt(pc[r], job[r], n)
  BY <1>4, <1>7 DEF TellerAt
<1>9. ~(Coordinating /\ at \in {"note", "close", "send", "done"})
  BY <1>3 DEF Coordinating
<1> QED BY <1>2, <1>3, <1>4, <1>5, <1>6, <1>8, <1>9, EditStep

\* A run that cannot coordinate sends.
LEMMA FailStep ==
    ASSUME IInv, NEW r \in Runs, pc[r] \in {"list", "create", "recheck"}, NEW j \in JobType,
           j.now = job[r].now, j.todo = job[r].todo, j.send <=> job[r].send, FailOpen(r, j), clock' = clock,
           Typed(incidents'), StampsOK(incidents'), Keeps(incidents, incidents'),
           \A n \in DOMAIN incidents' : n \notin DOMAIN incidents => incidents'[n].kind = KindOf[r],
           \A n \in DOMAIN incidents : incidents'[n].state = "closed" => incidents[n].state = "closed"
    PROVE  IInv'
<1>1. ~Ended(pc[r]) /\ "send" \in Places
  BY DEF Ended, Places
<1>2. JobOK(r, job[r], pc[r], incidents)
  BY <1>1, UnderWay
<1>3. PICK d \in JobType : /\ d = Met(j, "failure") /\ d.now = j.now /\ (d.send <=> j.send)
                           /\ d.met = "failure" /\ d.todo = j.todo
  BY MetFacts
<1>4. job' = [job EXCEPT ![r] = d] /\ pc' = [pc EXCEPT ![r] = "send"]
  BY <1>3 DEF FailOpen, Keep, Goto, Met
<1>5. d.send /\ d.now = job[r].now /\ d.todo = job[r].todo
  BY <1>2, <1>3 DEF JobOK
<1>6. JobOK(r, d, "send", incidents')
  <2>1. \A n \in d.todo : OfKind(incidents', n, KindOf[r])
    BY <1>2, <1>5 DEF JobOK, OfKind, Keeps
  <2> QED BY <1>1, <1>2, <1>5, <2>1 DEF JobOK, Ended
<1>7. \A n : TellerAt("send", d, n)
  BY <1>5 DEF TellerAt
<1>8. d.met # "nothing" /\ d.todo \subseteq job[r].todo /\ (d.todo # {} => d.send = job[r].send)
  <2>1. job[r].send = TRUE /\ d.send = TRUE
    <3>1. job[r].send /\ job[r].send \in BOOLEAN /\ d.send \in BOOLEAN
      BY <1>1, <1>2, UnderWay DEF JobOK, JobType
    <3> QED BY <1>5, <3>1
  <2>2. d.met # "nothing" /\ d.todo \subseteq job[r].todo
    BY <1>3, <1>5
  <2> QED BY <2>1, <2>2
<1> QED BY <1>1, <1>4, <1>6, <1>7, <1>8, CalmStep

LEMMA ListStep == ASSUME IInv, NEW r \in Runs, List(r) PROVE IInv'
<1> DEFINE j == job[r]
<1>1. /\ pc[r] = "list" /\ clock' = clock /\ incidents' = incidents /\ ~Ended(pc[r])
      /\ j \in JobType /\ j.send \in BOOLEAN
  BY TypeFacts DEF List, IInv, Ended
<1>2. EditedOK(r) /\ JobOK(r, j, "list", incidents) /\ j.todo = {}
  BY <1>1, SameIsEdited, UnderWay DEF JobOK
<1>3. CASE \E n \in OpenIncidents(KindOf[r]) :
             Keep(r, [j EXCEPT !.send = FALSE, !.number = n]) /\ Goto(r, "join")
  <2>1. PICK n \in OpenIncidents(KindOf[r]) :
               Keep(r, [j EXCEPT !.send = FALSE, !.number = n]) /\ Goto(r, "join")
    BY <1>3
  <2>2. OfKind(incidents, n, KindOf[r]) /\ n \in DOMAIN incidents
    BY DEF OpenIncidents, OfKind
  <2>3. n \in 0 .. MaxIncidents
    BY <2>2, TypeFacts, Entries, Constants DEF IInv, Numbers
  <2>4. PICK d \in JobType : /\ d = Joining(j, n) /\ d.now = j.now /\ ~d.send
                             /\ d.met = j.met /\ d.todo = j.todo
    BY <1>1, <2>3, JoiningFacts
  <2>5. job' = [job EXCEPT ![r] = d] /\ pc' = [pc EXCEPT ![r] = "join"]
    BY <2>1, <2>4 DEF Keep, Goto, Joining
  <2>6. JobOK(r, d, "join", incidents) /\ "join" \in Places
    BY <1>2, <2>2, <2>4 DEF JobOK, Ended, Places
  <2>7. \A n1 : TellerAt("list", j, n1) => TellerAt("join", d, n1)
    BY <2>4 DEF TellerAt
  <2>8. d.todo = {}
    BY <1>2, <2>4
  <2> HIDE DEF j
  <2> QED BY <1>1, <1>2, <2>5, <2>6, <2>7, <2>8, EditStep DEF j
<1>4. CASE Goto(r, "create") /\ UNCHANGED job
  <2>1. job' = [job EXCEPT ![r] = j] /\ pc' = [pc EXCEPT ![r] = "create"]
    BY <1>1, <1>4, UnderWay DEF Goto
  <2>2. JobOK(r, j, "create", incidents) /\ "create" \in Places
    BY <1>2 DEF JobOK, Ended, Places
  <2>3. \A n : TellerAt("list", j, n) => TellerAt("create", j, n)
    BY DEF TellerAt
  <2> QED BY <1>1, <1>2, <2>1, <2>2, <2>3, EditStep
<1>5. CASE FailOpen(r, j)
  BY <1>1, <1>2, <1>5, FailStep DEF EditedOK, Keeps
<1> QED BY <1>3, <1>4, <1>5 DEF List

\* A run that has opened an incident is to look again whether it is the only one.
LEMMA OpenedStep ==
    ASSUME IInv, NEW r \in Runs, pc[r] = "create", NEW d \in JobType, NEW at \in Places, at = "recheck",
           job' = [job EXCEPT ![r] = d], pc' = [pc EXCEPT ![r] = at], clock' = clock,
           Typed(incidents'), StampsOK(incidents'), Keeps(incidents, incidents'),
           JobOK(r, d, at, incidents'), d.number \notin DOMAIN incidents,
           \A n \in DOMAIN incidents' : n \notin DOMAIN incidents =>
              incidents'[n].kind = KindOf[r] /\ TellerAt(at, d, n),
           \A n \in DOMAIN incidents : incidents'[n].state = "closed" => incidents[n].state = "closed",
           \A n : TellerAt("create", job[r], n) => TellerAt(at, d, n),
           d.todo \subseteq job[r].todo, d.send = job[r].send
    PROVE  IInv'
<1>1. \A n \in DOMAIN incidents :
        FirstOfKind(n) /\ incidents[n].kind = KindOf[r] /\ TellerAt(pc[r], job[r], n) => TellerAt(at, d, n)
  OBVIOUS
<1>2. /\ at = "recheck" => d.number \notin DOMAIN incidents
      /\ d.todo # {} => d.send = job[r].send
      /\ Coordinating /\ at \in {"note", "close", "send", "done"} /\ d.send /\ d.met = "nothing" =>
           WonRun(r) /\ d.now = job[r].now
  OBVIOUS
<1>3. \A n \in DOMAIN incidents' : n \notin DOMAIN incidents =>
        \/ \E m \in DOMAIN incidents' : m < n /\ incidents'[m].kind = incidents'[n].kind
        \/ incidents'[n].kind = KindOf[r] /\ TellerAt(at, d, n)
  OBVIOUS
<1>4. \A n \in DOMAIN incidents : incidents'[n].state = "closed" =>
        incidents[n].state = "closed" \/ n \in job[r].todo
  OBVIOUS
<1> QED BY <1>1, <1>2, <1>3, <1>4, CalmStep, ZenonT(40)

LEMMA CreateStep == ASSUME IInv, NEW r \in Runs, Create(r) PROVE IInv'
<1> DEFINE j == job[r]
           n == Len(incidents) + 1
           x == Opened(r)
           one == Append(incidents, x)
           k == KindOf[r]
<1>1. /\ pc[r] = "create" /\ clock' = clock /\ ~Ended(pc[r]) /\ n <= MaxIncidents
      /\ j \in JobType /\ j.send \in BOOLEAN /\ j.now <= clock /\ clock <= j.now + JobMax
      /\ Typed(incidents) /\ StampsOK(incidents) /\ clock \in Times
  BY TypeFacts, UnderWay DEF Create, IInv, Ended, TypeOK
<1>2. JobOK(r, j, "create", incidents) /\ j.send
  BY <1>1, UnderWay DEF JobOK
<1>3. /\ DOMAIN incidents = 1 .. Len(incidents) /\ Len(incidents) \in Nat /\ Len(incidents) < MaxIncidents
      /\ n \notin DOMAIN incidents /\ n + 1 \notin DOMAIN incidents /\ n \in 0 .. MaxIncidents /\ k \in Kinds
  BY <1>1, Entries, Constants, KindAssumption
<1>4. /\ Typed(one) /\ StampsOK(one) /\ Keeps(incidents, one)
      /\ DOMAIN one = 1 .. n /\ Len(one) = n /\ \A m \in DOMAIN incidents : one[m] = incidents[m]
      /\ one[n].kind = k /\ one[n].created = clock /\ one[n].state = "open"
  <2>1. /\ Typed(one) /\ StampsOK(one) /\ Keeps(incidents, one)
        /\ DOMAIN one = 1 .. n /\ Len(one) = n /\ \A m \in DOMAIN incidents : one[m] = incidents[m]
        /\ one[n] = x
    BY <1>1, <1>3, OpenFacts DEF Opened
  <2>2. x.kind = k /\ x.created = clock /\ x.state = "open"
    BY DEF Opened
  <2> QED BY <2>1, <2>2
<1>5. CASE incidents' = one /\ Keep(r, Opening(j, n)) /\ Goto(r, "recheck")
  <2>1. PICK d \in JobType : /\ d = Opening(j, n) /\ d.now = j.now /\ (d.send <=> j.send) /\ d.met = j.met
                             /\ d.todo = j.todo /\ d.number = n
    BY <1>1, <1>3, OpeningFacts
  <2>2. job' = [job EXCEPT ![r] = d] /\ pc' = [pc EXCEPT ![r] = "recheck"] /\ incidents' = one
    BY <1>5, <2>1 DEF Keep, Goto
  <2> HIDE DEF one, x, n, j, k
  <2>3. JobOK(r, d, "recheck", one)
    <3>1. \A m \in d.todo : OfKind(one, m, k)
      BY <1>2, <1>4, <2>1 DEF JobOK, OfKind, Keeps, k
    <3>2. OfKind(one, n, k)
      BY <1>3, <1>4 DEF OfKind, n
    <3> QED BY <1>1, <1>2, <1>4, <2>1, <3>1, <3>2 DEF JobOK, Ended, k
  <2>4. \A m : TellerAt("create", j, m) => TellerAt("recheck", d, m)
    BY <2>1 DEF TellerAt
  <2>5. \A m \in DOMAIN one : m \notin DOMAIN incidents => one[m].kind = k /\ TellerAt("recheck", d, m)
    <3>1. \A m \in DOMAIN one : m \notin DOMAIN incidents => m = n
      BY <1>3, <1>4 DEF n
    <3> QED BY <1>4, <2>1, <3>1 DEF TellerAt
  <2>6. \A m \in DOMAIN incidents : one[m].state = "closed" => incidents[m].state = "closed"
    BY <1>4
  <2>7. "recheck" \in Places /\ d.todo \subseteq j.todo /\ d.send = j.send
    <3>1. j.send = TRUE /\ d.send = TRUE
      BY <1>1, <1>2, <2>1 DEF JobType
    <3> QED BY <2>1, <3>1 DEF Places
  <2>8. /\ Typed(incidents') /\ StampsOK(incidents') /\ Keeps(incidents, incidents')
        /\ JobOK(r, d, "recheck", incidents')
        /\ \A m \in DOMAIN incidents' : m \notin DOMAIN incidents =>
             incidents'[m].kind = KindOf[r] /\ TellerAt("recheck", d, m)
        /\ \A m \in DOMAIN incidents : incidents'[m].state = "closed" => incidents[m].state = "closed"
    BY <1>4, <2>2, <2>3, <2>5, <2>6 DEF k
  <2>9. d.number \notin DOMAIN incidents
    BY <1>3, <2>1
  <2> QED BY <1>1, <2>2, <2>4, <2>7, <2>8, <2>9, OpenedStep DEF j
<1>6. CASE /\ n < MaxIncidents /\ incidents' = Append(one, x)
           /\ Keep(r, OpeningTwo(j, n + 1)) /\ Goto(r, "recheck")
  <2> DEFINE two == Append(one, x)
  <2>1. PICK d \in JobType : /\ d = OpeningTwo(j, n + 1) /\ d.now = j.now /\ (d.send <=> j.send)
                             /\ d.met = "twice" /\ d.todo = j.todo /\ d.number = n + 1
    <3>1. n + 1 \in 0 .. MaxIncidents
      BY <1>3, <1>6, Constants
    <3> HIDE DEF n
    <3> QED BY <1>1, <3>1, OpeningTwoFacts
  <2>2. /\ Typed(two) /\ StampsOK(two) /\ Keeps(one, two)
        /\ DOMAIN two = 1 .. n + 1 /\ \A m \in DOMAIN one : two[m] = one[m]
        /\ two[n + 1].kind = k /\ two[n + 1].created = clock /\ two[n + 1].state = "open"
    <3>1. /\ Typed(two) /\ StampsOK(two) /\ Keeps(one, two)
          /\ DOMAIN two = 1 .. n + 1 /\ \A m \in DOMAIN one : two[m] = one[m]
          /\ two[n + 1] = x
      <4> HIDE DEF one, n
      <4>1. Len(one) = n /\ n < MaxIncidents
        BY <1>4, <1>6
      <4> QED BY <1>1, <1>3, <1>4, <4>1, OpenFacts DEF Opened
    <3>2. x.kind = k /\ x.created = clock /\ x.state = "open"
      BY DEF Opened
    <3> QED BY <3>1, <3>2
  <2>3. job' = [job EXCEPT ![r] = d] /\ pc' = [pc EXCEPT ![r] = "recheck"] /\ incidents' = two
    BY <1>6, <2>1 DEF Keep, Goto
  <2> HIDE DEF two, one, x, n, j, k
  <2>4. /\ Keeps(incidents, two) /\ two[n].kind = k /\ \A m \in DOMAIN incidents : two[m] = incidents[m]
        /\ DOMAIN incidents \subseteq DOMAIN two
        /\ \A m \in DOMAIN two : m \notin DOMAIN incidents => m = n \/ m = n + 1
    <3>1. /\ DOMAIN incidents \subseteq DOMAIN one /\ DOMAIN one \subseteq DOMAIN two /\ n \in DOMAIN one
          /\ \A m \in DOMAIN two : m \notin DOMAIN incidents => m = n \/ m = n + 1
      BY <1>3, <1>4, <2>2 DEF n
    <3> QED BY <1>4, <2>2, <3>1 DEF Keeps
  <2>5. JobOK(r, d, "recheck", two)
    <3>1. n + 1 \in DOMAIN two
      BY <1>3, <2>2 DEF n
    <3>2. OfKind(two, n + 1, k) /\ \A m \in d.todo : OfKind(two, m, k)
      BY <1>2, <2>1, <2>2, <2>4, <3>1 DEF JobOK, OfKind, k
    <3> QED BY <1>1, <1>2, <2>1, <2>2, <3>2 DEF JobOK, Ended, k
  <2>6. \A m : TellerAt("recheck", d, m)
    BY <2>1 DEF TellerAt
  <2>7. \A m \in DOMAIN two : m \notin DOMAIN incidents => two[m].kind = k
    BY <2>2, <2>4
  <2>8. \A m \in DOMAIN incidents : two[m].state = "closed" => incidents[m].state = "closed"
    BY <2>4
  <2>9. "recheck" \in Places /\ d.todo \subseteq j.todo /\ d.send = j.send
    <3>1. j.send = TRUE /\ d.send = TRUE
      BY <1>1, <1>2, <2>1 DEF JobType
    <3> QED BY <2>1, <3>1 DEF Places
  <2>10. /\ Typed(incidents') /\ StampsOK(incidents') /\ Keeps(incidents, incidents')
         /\ JobOK(r, d, "recheck", incidents')
         /\ \A m \in DOMAIN incidents' : m \notin DOMAIN incidents =>
              incidents'[m].kind = KindOf[r] /\ TellerAt("recheck", d, m)
         /\ \A m \in DOMAIN incidents : incidents'[m].state = "closed" => incidents[m].state = "closed"
    BY <2>2, <2>3, <2>4, <2>5, <2>6, <2>7, <2>8 DEF k
  <2>11. d.number \notin DOMAIN incidents
    BY <1>3, <2>1
  <2> QED BY <1>1, <2>3, <2>6, <2>9, <2>10, <2>11, OpenedStep DEF j
<1>7. CASE incidents' = one /\ FailOpen(r, j)
  <2>1. \A m \in DOMAIN one : m \notin DOMAIN incidents => one[m].kind = k
    <3>1. \A m \in DOMAIN one : m \notin DOMAIN incidents => m = n
      BY <1>3, <1>4
    <3> QED BY <1>4, <3>1
  <2>2. \A m \in DOMAIN incidents : one[m].state = "closed" => incidents[m].state = "closed"
    BY <1>4
  <2> HIDE DEF one
  <2> QED BY <1>1, <1>4, <1>7, <2>1, <2>2, FailStep
<1>8. CASE UNCHANGED incidents /\ \E i \in JobType : /\ FailOpen(r, i) /\ i.now = j.now
                                                   /\ i.todo = j.todo /\ (i.send <=> j.send)
  <2>1. PICK i \in JobType : FailOpen(r, i) /\ i.now = j.now /\ i.todo = j.todo /\ (i.send <=> j.send)
    BY <1>8
  <2> QED BY <1>1, <1>8, <2>1, FailStep DEF Keeps
<1>9. PICK i \in JobType : i = Late(j) /\ i.now = j.now /\ (i.send <=> j.send) /\ i.todo = j.todo
  BY <1>1, LateFacts
<1> QED BY <1>1, <1>5, <1>6, <1>7, <1>8, <1>9 DEF Create, Opening, OpeningTwo

\* The incident of a run that loses its re-check is not the first of its kind.
LEMMA LoserIsLater ==
    ASSUME IInv, NEW r \in Runs, pc[r] = "recheck", NEW n, n = job[r].number, ~Winner(n, Contenders(r))
    PROVE  ~FirstOfKind(n)
<1>1. PICK lost, won \in SUBSET Numbers : Coordinated(lost, won)
  BY DEF IInv
<1>2. n \in DOMAIN incidents /\ incidents[n].kind = KindOf[r] /\ n \in Contenders(r)
  BY <1>1, RecheckFacts
<1>3. PICK m \in Contenders(r) : ~(n <= m)
  BY <1>2 DEF Winner, Lowest
<1>4. m # n /\ m \in DOMAIN incidents /\ incidents[m].kind = KindOf[r]
  BY <1>2, <1>3, TypeFacts, Entries DEF Contenders, OpenIncidents, IInv
<1>5. DOMAIN incidents \subseteq Nat
  BY TypeFacts, Entries DEF IInv
<1> QED BY <1>2, <1>3, <1>4, <1>5 DEF FirstOfKind

LEMMA RecheckStep == ASSUME IInv, NEW r \in Runs, Recheck(r) PROVE IInv'
<1> DEFINE j == job[r]
<1>1. /\ pc[r] = "recheck" /\ clock' = clock /\ incidents' = incidents /\ ~Ended(pc[r])
      /\ j \in JobType /\ j.send \in BOOLEAN /\ JobOK(r, j, "recheck", incidents)
  BY UnderWay DEF Recheck, Ended
<1>2. /\ Typed(incidents') /\ StampsOK(incidents') /\ Keeps(incidents, incidents')
  BY <1>1, SameIsEdited DEF EditedOK
<1>3. PICK lost, won \in SUBSET Numbers : Coordinated(lost, won)
  BY DEF IInv
<1>4. PICK n \in Numbers : /\ n = job[r].number /\ n \in DOMAIN incidents
                           /\ j.send = TRUE /\ j.now <= clock /\ clock <= j.now + JobMax
  BY <1>1, <1>3, RecheckFacts
<1>5. CASE /\ ~Winner(n, Contenders(r)) /\ Keep(r, GivingWay(j, {n})) /\ Goto(r, "note")
  <2>1. PICK d \in JobType : /\ d = GivingWay(j, {n}) /\ d.now = j.now /\ ~d.send /\ d.met = j.met /\ d.todo = {n}
    BY <1>1, <1>4, GivingWayFacts
  <2>2. job' = [job EXCEPT ![r] = d] /\ pc' = [pc EXCEPT ![r] = "note"] /\ "note" \in Places
    BY <1>5, <2>1 DEF Keep, Goto, Places
  <2>3. /\ job'[r] = d /\ pc'[r] = "note"
        /\ \A s \in Runs : s # r => job'[s] = job[s] /\ pc'[s] = pc[s]
    BY <2>2, TypeFacts DEF IInv
  <2>4. job'[r].send = FALSE /\ job'[r].todo = {n}
    BY <2>1, <2>3 DEF JobType
  <2>5. Coordinated(lost \union {n}, won)' /\ WinnersApart'
    BY <1>1, <1>3, <1>4, <1>5, <2>3, <2>4, LoseStep
  <2>6. \E l, w \in SUBSET Numbers : Coordinated(l, w)'
    BY <1>4, <2>5
  <2>7. TellersOK'
    <3>1. ASSUME NEW m \in DOMAIN incidents, FirstOfKind(m), Teller(r, m) PROVE Teller(r, m)'
      <4>1. m # n
        BY <1>1, <1>4, <1>5, <3>1, LoserIsLater
      <4> QED BY <1>1, <1>4, <2>1, <2>3, <3>1, <4>1 DEF Teller, TellerAt
    <3> QED BY <1>1, <1>2, <2>3, <3>1, TellersStay
  <2>8. JobOK(r, d, "note", incidents')
    BY <1>1, <1>4, <2>1 DEF JobOK, Ended
  <2> QED BY <1>1, <1>2, <2>2, <2>5, <2>6, <2>7, <2>8, JobStep
<1>6. CASE /\ Winner(n, Contenders(r)) /\ Keep(r, Closing(j, Older(r)))
           /\ \E at \in {"note", "send"} : Goto(r, at)
  <2>1. \A x \in Older(r) : x \in Numbers /\ OfKind(incidents, x, KindOf[r])
    BY <1>4, OlderFacts DEF OfKind
  <2>2. PICK d \in JobType : /\ d = Closing(j, Older(r)) /\ d.now = j.now /\ (d.send <=> j.send)
                             /\ d.met = j.met /\ d.todo = Older(r)
    BY <1>1, <2>1, ClosingFacts
  <2>3. PICK at \in {"note", "send"} : pc' = [pc EXCEPT ![r] = at]
    BY <1>6 DEF Goto
  <2>4. job' = [job EXCEPT ![r] = d] /\ at \in Places /\ at # "recheck"
    BY <1>6, <2>2 DEF Keep, Places
  <2>5. /\ job'[r] = d /\ pc'[r] = at
        /\ \A s \in Runs : s # r => job'[s] = job[s] /\ pc'[s] = pc[s]
    BY <2>3, <2>4, TypeFacts DEF IInv
  <2>6. job'[r].send = TRUE /\ job'[r].todo = Older(r) /\ job'[r].now = job[r].now /\ d.send
    <3>1. d.send = TRUE
      BY <1>4, <2>2 DEF JobType
    <3> QED BY <2>2, <2>5, <3>1
  <2>7. Coordinated(lost, won \union {n})' /\ WinnersApart'
    BY <1>1, <1>3, <1>4, <1>6, <2>4, <2>5, <2>6, WinStep
  <2>8. \E l, w \in SUBSET Numbers : Coordinated(l, w)'
    BY <1>4, <2>7
  <2>9. TellersOK'
    <3>1. \A m : Teller(r, m)'
      BY <2>5, <2>6 DEF Teller, TellerAt
    <3> QED BY <1>1, <1>2, <2>5, <3>1, TellersStay
  <2>10. JobOK(r, d, at, incidents')
    BY <1>1, <1>4, <2>1, <2>2, <2>6 DEF JobOK, Ended
  <2> QED BY <1>1, <1>2, <2>3, <2>4, <2>7, <2>8, <2>9, <2>10, JobStep
<1>7. CASE FailOpen(r, j)
  BY <1>1, <1>2, <1>7, FailStep
<1> QED BY <1>4, <1>5, <1>6, <1>7 DEF Recheck, GivingWay, Closing

\* The closing loop goes on with what is left of its list.
LEMMA ContinueStep ==
    ASSUME IInv, NEW r \in Runs, pc[r] \in {"note", "close"}, EditedOK(r), clock' = clock,
           NEW j \in JobType, Continue(r, j), j.now = job[r].now, j.send <=> job[r].send, j.met = job[r].met,
           j.todo \subseteq job[r].todo
    PROVE  IInv'
<1>1. CASE j.todo = {} /\ ~j.send
  <2>1. End(r, j)
    BY <1>1 DEF Continue
  <2> QED BY <2>1, EndStep
<1>2. CASE ~(j.todo = {} /\ ~j.send)
  <2>1. PICK at \in {"note", "send"} : /\ pc' = [pc EXCEPT ![r] = at] /\ job' = [job EXCEPT ![r] = j]
                                       /\ (at = "send" => j.todo = {})
    BY <1>2 DEF Continue, Keep, Goto
  <2>2. ~Ended(pc[r]) /\ at \in Places /\ at # "recheck"
    BY DEF Ended, Places
  <2>3. JobOK(r, job[r], pc[r], incidents) /\ job[r].send \in BOOLEAN /\ j.send \in BOOLEAN
    BY <2>2, UnderWay DEF JobType
  <2>4. JobOK(r, j, at, incidents)
    BY <1>2, <2>1, <2>2, <2>3 DEF JobOK, Ended
  <2>5. \A n : TellerAt(pc[r], job[r], n) => TellerAt(at, j, n)
    BY DEF TellerAt
  <2>6. at \in {"note", "close", "send", "done"} /\ j.send /\ j.met = "nothing" => WonRun(r)
    BY DEF WonRun
  <2>7. j.send = job[r].send
    BY <2>3
  <2> QED BY <2>1, <2>2, <2>4, <2>5, <2>6, <2>7, EditStep
<1> QED BY <1>1, <1>2

\* The comment bumps the stamp of the issue and leaves its state.
LEMMA TouchIsEdited == ASSUME IInv, NEW r \in Runs, NEW n, incidents' = Touched(n) PROVE EditedOK(r)
<1> DEFINE new == Touched(n)
<1>1. /\ Typed(new) /\ StampsOK(new) /\ Keeps(incidents, new) /\ DOMAIN new = DOMAIN incidents
      /\ \A m \in DOMAIN incidents : new[m].state = incidents[m].state
  BY TouchFacts DEF IInv
<1>2. incidents' = new
  OBVIOUS
<1> HIDE DEF new
<1> QED BY <1>1, <1>2 DEF EditedOK

LEMMA NoteStep == ASSUME IInv, NEW r \in Runs, Note(r) PROVE IInv'
<1> DEFINE j == job[r]
<1>1. /\ pc[r] = "note" /\ clock' = clock /\ ~Ended(pc[r])
      /\ j \in JobType /\ JobOK(r, j, "note", incidents) /\ j.todo \subseteq Numbers
      /\ job = [job EXCEPT ![r] = j]
  BY UnderWay, TypeFacts DEF Note, Ended, IInv
<1>2. CASE \E n \in j.todo : incidents' = Touched(n) /\ Goto(r, "close") /\ UNCHANGED job
  <2>1. EditedOK(r)
    BY <1>2, TouchIsEdited
  <2>2. job' = [job EXCEPT ![r] = j] /\ pc' = [pc EXCEPT ![r] = "close"] /\ "close" \in Places
    BY <1>1, <1>2 DEF Goto, Places
  <2>3. JobOK(r, j, "close", incidents)
    BY <1>1 DEF JobOK, Ended
  <2>4. \A n : TellerAt("note", j, n) => TellerAt("close", j, n)
    BY DEF TellerAt
  <2>5. j.send /\ j.met = "nothing" => WonRun(r)
    BY <1>1 DEF WonRun
  <2> QED BY <1>1, <2>1, <2>2, <2>3, <2>4, <2>5, EditStep
<1>3. CASE \E n \in j.todo :
              /\ UNCHANGED incidents \/ incidents' = Touched(n)
              /\ Continue(r, Closing(j, j.todo \ {n}))
  <2>1. PICK n \in j.todo : /\ UNCHANGED incidents \/ incidents' = Touched(n)
                            /\ Continue(r, Closing(j, j.todo \ {n}))
    BY <1>3
  <2>2. PICK d \in JobType : /\ d = Closing(j, j.todo \ {n}) /\ d.now = j.now /\ (d.send <=> j.send)
                             /\ d.met = j.met /\ d.todo = j.todo \ {n}
    BY <1>1, ClosingFacts
  <2>3. EditedOK(r)
    BY <2>1, TouchIsEdited, SameIsEdited
  <2> QED BY <1>1, <2>1, <2>2, <2>3, ContinueStep
<1>4. CASE UNCHANGED incidents /\ Continue(r, Late(Closing(j, {})))
  <2>1. PICK c \in JobType : /\ c = Closing(j, {}) /\ c.now = j.now /\ (c.send <=> j.send)
                             /\ c.met = j.met /\ c.todo = {}
    BY <1>1, ClosingFacts
  <2>2. PICK d \in JobType : /\ d = Late(c) /\ d.now = c.now /\ (d.send <=> c.send)
                             /\ d.met = c.met /\ d.todo = c.todo
    BY LateFacts
  <2>3. EditedOK(r) /\ Continue(r, d)
    BY <1>4, <2>1, <2>2, SameIsEdited
  <2> QED BY <1>1, <2>1, <2>2, <2>3, ContinueStep
<1> QED BY <1>2, <1>3, <1>4 DEF Note, Closing

LEMMA CloseStep == ASSUME IInv, NEW r \in Runs, Close(r) PROVE IInv'
<1> DEFINE j == job[r]
<1>1. /\ pc[r] = "close" /\ clock' = clock /\ ~Ended(pc[r])
      /\ j \in JobType /\ JobOK(r, j, "close", incidents) /\ j.todo \subseteq Numbers
  BY UnderWay, TypeFacts DEF Close, Ended, IInv
<1>2. PICK n \in j.todo :
        /\ \/ incidents' = [Touched(n) EXCEPT ![n].state = IF Touched(n)[n].state = "open" THEN "closed"
                                                          ELSE Touched(n)[n].state]
           \/ UNCHANGED incidents
        /\ Continue(r, Closing(j, j.todo \ {n}))
  BY DEF Close, Closing
<1>3. PICK d \in JobType : /\ d = Closing(j, j.todo \ {n}) /\ d.now = j.now /\ (d.send <=> j.send)
                           /\ d.met = j.met /\ d.todo = j.todo \ {n}
  BY <1>1, ClosingFacts
<1>4. ASSUME incidents' = [Touched(n) EXCEPT ![n].state = IF Touched(n)[n].state = "open" THEN "closed"
                                                        ELSE Touched(n)[n].state]
      PROVE  EditedOK(r)
  <2>1. n \in DOMAIN incidents
    BY <1>1 DEF JobOK, OfKind
  <2>2. PICK state \in {"open", "closed", "human"} :
          /\ state = IF Touched(n)[n].state = "open" THEN "closed" ELSE Touched(n)[n].state
          /\ incidents[n].state = "human" => state = "human"
    <3>1. Touched(n)[n].state = incidents[n].state /\ incidents[n].state \in {"open", "closed", "human"}
      BY <2>1, TouchedIs, TypeFacts, Entries DEF IInv
    <3> QED BY <3>1
  <2>3. incidents' = Marked(n, state)
    BY <1>4, <2>2 DEF Marked
  <2>4. /\ Typed(incidents') /\ StampsOK(incidents') /\ Keeps(incidents, incidents')
        /\ DOMAIN incidents' = DOMAIN incidents
        /\ \A m \in DOMAIN incidents : m # n => incidents'[m] = incidents[m]
    BY <2>1, <2>2, <2>3, StateFacts DEF IInv
  <2>5. \A m \in DOMAIN incidents : incidents'[m].state = "closed" =>
          incidents[m].state = "closed" \/ m \in job[r].todo
    <3>1. \A m \in DOMAIN incidents : m # n => incidents'[m].state = incidents[m].state
      BY <2>4
    <3>2. n \in job[r].todo
      OBVIOUS
    <3> QED BY <3>1, <3>2
  <2> QED BY <2>4, <2>5 DEF EditedOK
<1>5. EditedOK(r)
  BY <1>2, <1>4, SameIsEdited
<1> QED BY <1>1, <1>2, <1>3, <1>5, ContinueStep

LEMMA SendStep == ASSUME IInv, NEW r \in Runs, Send(r) PROVE IInv'
<1> DEFINE j == job[r]
           c == IF "chat" \in Unsent(j) THEN "chat" ELSE "email"
           Told(k, s) == [k EXCEPT !.told[c] = s]
<1>1. /\ pc[r] = "send" /\ clock' = clock /\ incidents' = incidents /\ ~Ended(pc[r])
      /\ j \in JobType /\ JobOK(r, j, "send", incidents) /\ pc = [pc EXCEPT ![r] = "send"]
  BY UnderWay DEF Send, Ended
<1>2. EditedOK(r)
  BY <1>1, SameIsEdited
<1>3. PICK l \in JobType : /\ l = Late(j) /\ l.now = j.now /\ (l.send <=> j.send)
                           /\ l.met = j.met /\ l.todo = j.todo /\ l.told = j.told
  BY <1>1, LateFacts
<1>4. PICK k \in {j, l}, s \in {"sent", "not sent"} :
        IF Unsent(Told(k, s)) = {} THEN End(r, Told(k, s)) ELSE Keep(r, Told(k, s)) /\ UNCHANGED pc
  <2>1. /\ Send(r)
        /\ Late(j) = l
    BY <1>3
  <2> QED BY <2>1 DEF Send
<1>5. k \in JobType /\ k.now = j.now /\ (k.send <=> j.send) /\ k.met = j.met /\ k.todo = j.todo
  BY <1>1, <1>3, <1>4
<1>6. PICK m \in JobType : /\ m = Told(k, s) /\ m.now = k.now /\ (m.send <=> k.send)
                           /\ m.met = k.met /\ m.todo = k.todo
  <2>1. s \in {"not yet", "sent", "not sent"}
    OBVIOUS
  <2> HIDE DEF c
  <2>2. \E m \in JobType : /\ m = [k EXCEPT !.told[c] = s] /\ m.now = k.now /\ (m.send <=> k.send)
                          /\ m.met = k.met /\ m.todo = k.todo
    <3>1. ASSUME NEW m, m = [k EXCEPT !.told[c] = s]
          PROVE  /\ m \in JobType /\ m.now = k.now /\ (m.send <=> k.send)
                 /\ m.met = k.met /\ m.todo = k.todo
      BY <1>5, <2>1, <3>1 DEF JobType
    <3> QED BY <3>1
  <2> QED BY <2>2
<1> HIDE DEF Told, c
<1>7. CASE End(r, m)
  <2>1. m.now = job[r].now /\ (m.send <=> job[r].send) /\ m.met = job[r].met
    BY <1>5, <1>6
  <2> QED BY <1>1, <1>2, <1>7, <2>1, EndStep
<1>8. CASE Keep(r, m) /\ UNCHANGED pc
  <2>1. job' = [job EXCEPT ![r] = m] /\ pc' = [pc EXCEPT ![r] = "send"] /\ "send" \in Places
    BY <1>1, <1>8 DEF Keep, Places
  <2>2. m.now = j.now /\ (m.send <=> j.send) /\ m.met = j.met /\ m.todo = j.todo
    BY <1>5, <1>6
  <2>3. JobOK(r, m, "send", incidents)
    BY <1>1, <2>2 DEF JobOK, Ended
  <2>4. \A n : TellerAt("send", j, n) => TellerAt("send", m, n)
    BY <2>2 DEF TellerAt
  <2>5. m.send /\ m.met = "nothing" => WonRun(r)
    BY <1>1, <2>2 DEF WonRun
  <2>6. m.send = j.send
    <3>1. m.send \in BOOLEAN /\ j.send \in BOOLEAN
      BY <1>1 DEF JobType
    <3> QED BY <2>2, <3>1
  <2> QED BY <1>1, <1>2, <2>1, <2>2, <2>3, <2>4, <2>5, <2>6, EditStep
<1> QED BY <1>4, <1>6, <1>7, <1>8

LEMMA CrashStep == ASSUME IInv, NEW r \in Runs, Crash(r) PROVE IInv'
<1>1. clock' = clock /\ incidents' = incidents /\ pc' = [pc EXCEPT ![r] = "killed"] /\ "killed" \in Places
  BY DEF Crash, Goto, Places
<1>2. job[r] \in JobType /\ job[r].now <= clock
  BY TypeFacts DEF IInv, JobOK
<1>3. PICK d \in JobType : d = [Blank EXCEPT !.now = job[r].now] /\ d.now = job[r].now /\ d.send /\ d.todo = {}
  <2> DEFINE b == Blank
             now == job[r].now
  <2>1. b \in JobType /\ b.send /\ b.todo = {} /\ now \in Times
    BY <1>2, BlankType DEF Blank, JobType
  <2> HIDE DEF b, now
  <2>2. \E d \in JobType : d = [b EXCEPT !.now = now] /\ d.now = now /\ d.send /\ d.todo = {}
    <3>1. ASSUME NEW d, d = [b EXCEPT !.now = now]
          PROVE  d \in JobType /\ d.now = now /\ d.send /\ d.todo = {}
      BY <2>1, <3>1 DEF JobType
    <3> QED BY <3>1
  <2> QED BY <2>2 DEF b, now
<1>4. job' = [job EXCEPT ![r] = d]
  BY <1>3 DEF Crash, Keep
<1>5. EditedOK(r)
  BY <1>1, SameIsEdited
<1>6. JobOK(r, d, "killed", incidents)
  BY <1>2, <1>3 DEF JobOK, Ended
<1>7. \A n : TellerAt("killed", d, n)
  BY DEF TellerAt
<1> QED BY <1>1, <1>3, <1>4, <1>5, <1>6, <1>7, EditStep

-----------------------------------------------------------------------------
(* Steps of nobody's job                                                   *)

LEMMA StandStep ==
    ASSUME IInv, pc' = pc, job' = job, Typed(incidents'), Keeps(incidents, incidents'),
           DOMAIN incidents' = DOMAIN incidents, StampsOK(incidents)', clock' \in Times, clock <= clock',
           \A n \in DOMAIN incidents : incidents'[n].state = "closed" => incidents[n].state = "closed",
           \A r \in Runs : ~Ended(pc[r]) => clock' <= job[r].now + JobMax
    PROVE  IInv'
<1>1. clock \in Nat /\ clock' \in Nat /\ \A r \in Runs : job[r].now \in Nat
  BY TypeFacts, Constants DEF IInv, Times
<1>2. TypeOK'
  BY DEF IInv, TypeOK, Typed
<1>3. (\A r \in Runs : JobOK(r, job[r], pc[r], incidents))'
  <2> SUFFICES ASSUME NEW r \in Runs PROVE JobOK(r, job[r], pc[r], incidents)'
    OBVIOUS
  <2>1. JobOK(r, job[r], pc[r], incidents)
    BY DEF IInv
  <2>2. job[r].now <= clock'
    BY <1>1, <2>1 DEF JobOK
  <2>3. \A n \in DOMAIN incidents :
          incidents'[n].kind = incidents[n].kind /\ incidents'[n].created = incidents[n].created
    BY DEF Keeps
  <2> QED BY <2>1, <2>2, <2>3 DEF JobOK, OfKind
<1>4. OwnersDiffer'
  BY DEF IInv, OwnersDiffer, Rechecks
<1>5. TellersOK'
  <2>1. ASSUME NEW n \in DOMAIN incidents, FirstOfKind(n)' PROVE FirstOfKind(n)
    BY <2>1 DEF FirstOfKind, Keeps
  <2>2. \A n : \A s \in Runs : Teller(s, n) => Teller(s, n)'
    BY DEF Teller, TellerAt
  <2> QED BY <2>1, <2>2 DEF IInv, TellersOK, Keeps
<1>6. Calm
  BY DEF Calm, WonRun, Rechecks
<1>7. \E lost, won \in SUBSET Numbers : Coordinated(lost, won)'
  BY <1>6, CalmCoordinated DEF IInv
<1>8. WinnersApart'
  BY <1>6, CalmWinners
<1> QED BY <1>2, <1>3, <1>4, <1>5, <1>7, <1>8 DEF IInv

LEMMA HumanStep == ASSUME IInv, NEW n \in DOMAIN incidents, HumanCloses(n) PROVE IInv'
<1>1. /\ incidents' = Marked(n, "human") /\ clock' = clock /\ pc' = pc /\ job' = job
      /\ clock \in Times /\ clock \in Nat
  BY TypeFacts DEF HumanCloses, Marked, IInv, TypeOK
<1>2. PICK state \in {"open", "closed", "human"} : state = "human"
  OBVIOUS
<1>3. incidents' = Marked(n, state)
  BY <1>1, <1>2
<1>4. /\ Typed(incidents') /\ StampsOK(incidents') /\ Keeps(incidents, incidents')
      /\ DOMAIN incidents' = DOMAIN incidents
      /\ \A m \in DOMAIN incidents : m # n => incidents'[m] = incidents[m]
      /\ incidents'[n].state = state
  BY <1>2, <1>3, StateFacts DEF IInv
<1>5. \A m \in DOMAIN incidents : incidents'[m].state = "closed" => incidents[m].state = "closed"
  BY <1>2, <1>4
<1>6. StampsOK(incidents)'
  BY <1>1, <1>4 DEF StampsOK
<1>7. \A r \in Runs : ~Ended(pc[r]) => clock <= job[r].now + JobMax
  BY DEF IInv, JobOK
<1> QED BY <1>1, <1>4, <1>5, <1>6, <1>7, StandStep

LEMMA TickStep == ASSUME IInv, Tick PROVE IInv'
<1>1. /\ clock < MaxClock /\ clock' = clock + 1 /\ incidents' = incidents /\ pc' = pc /\ job' = job
      /\ \A r \in Runs : ~Ended(pc[r]) => clock - job[r].now < JobMax
  BY DEF Tick, InFlight, Ended
<1>2. clock \in Nat /\ MaxClock \in Nat /\ JobMax \in Nat /\ \A r \in Runs : job[r].now \in Nat
  BY TypeFacts, Constants DEF IInv
<1>3. clock' \in Times /\ clock <= clock'
  BY <1>1, <1>2 DEF Times
<1>4. \A r \in Runs : ~Ended(pc[r]) => clock' <= job[r].now + JobMax
  BY <1>1, <1>2
<1>5. StampsOK(incidents)'
  <2>1. \A n \in DOMAIN incidents :
          /\ incidents[n].created <= incidents[n].updated /\ incidents[n].updated <= clock
          /\ incidents[n].updated \in Nat
    BY TypeFacts, Entries DEF IInv, StampsOK
  <2> QED BY <1>1, <1>2, <2>1 DEF StampsOK
<1>6. Typed(incidents) /\ Keeps(incidents, incidents)
  BY TypeFacts DEF IInv, Keeps
<1> QED BY <1>1, <1>3, <1>4, <1>5, <1>6, StandStep

-----------------------------------------------------------------------------
(* The invariant                                                           *)

LEMMA InitIInv == Init => IInv
<1> SUFFICES ASSUME Init PROVE IInv
  OBVIOUS
<1>1. incidents = <<>> /\ clock = 0 /\ pc = [r \in Runs |-> "idle"] /\ job = [r \in Runs |-> Blank]
  BY DEF Init
<1>2. Len(incidents) = 0 /\ DOMAIN incidents = {} /\ incidents \in Seq(Incident)
  BY <1>1
<1>3. /\ \A r \in Runs : job[r] = Blank /\ pc[r] = "idle"
      /\ job \in [Runs -> JobType] /\ pc \in [Runs -> Places]
  BY <1>1, BlankType DEF Places
<1>4. /\ Blank.now = 0 /\ Blank.send /\ Blank.todo = {} /\ Blank.met = "nothing" /\ Blank.number = 0
  BY DEF Blank
<1>5. TypeOK
  <2>1. clock \in Times /\ Len(incidents) <= MaxIncidents
    BY <1>1, <1>2, Constants DEF Times
  <2> QED BY <1>2, <1>3, <2>1 DEF TypeOK, JobType, Places
<1>6. StampsOK(incidents) /\ TellersOK
  BY <1>2 DEF StampsOK, TellersOK
<1>7. \A r \in Runs : JobOK(r, job[r], pc[r], incidents)
  BY <1>1, <1>3, <1>4 DEF JobOK, Ended
<1>8. \A r \in Runs : ~WonRun(r) /\ \A n : ~Rechecks(r, n)
  BY <1>3 DEF WonRun, Rechecks
<1>9. OwnersDiffer /\ WinnersApart
  BY <1>8 DEF OwnersDiffer, WinnersApart
<1>10. Coordinated({}, {})
  BY <1>2, <1>3, <1>4, <1>8 DEF Coordinated, SetsOK, LostOK, SupersededOK, WonOK, WinnersOK
<1> QED BY <1>5, <1>6, <1>7, <1>9, <1>10 DEF IInv

LEMMA NextIInv == IInv /\ [Next]_vars => IInv'
<1> SUFFICES ASSUME IInv, [Next]_vars PROVE IInv'
  OBVIOUS
<1>1. ASSUME NEW r \in Runs, Start(r) PROVE IInv'
  BY <1>1, StartStep
<1>2. ASSUME NEW r \in Runs, List(r) PROVE IInv'
  BY <1>2, ListStep
<1>3. ASSUME NEW r \in Runs, Join(r) PROVE IInv'
  BY <1>3, JoinStep
<1>4. ASSUME NEW r \in Runs, Create(r) PROVE IInv'
  BY <1>4, CreateStep
<1>5. ASSUME NEW r \in Runs, Recheck(r) PROVE IInv'
  BY <1>5, RecheckStep
<1>6. ASSUME NEW r \in Runs, Note(r) PROVE IInv'
  BY <1>6, NoteStep
<1>7. ASSUME NEW r \in Runs, Close(r) PROVE IInv'
  BY <1>7, CloseStep
<1>8. ASSUME NEW r \in Runs, Send(r) PROVE IInv'
  BY <1>8, SendStep
<1>9. ASSUME NEW r \in Runs, Crash(r) PROVE IInv'
  BY <1>9, CrashStep
<1>10. ASSUME NEW n \in DOMAIN incidents, HumanCloses(n) PROVE IInv'
  BY <1>10, HumanStep
<1>11. CASE Tick
  BY <1>11, TickStep
<1>12. CASE UNCHANGED vars
  <2>1. /\ pc' = pc /\ job' = job /\ incidents' = incidents /\ clock' = clock
        /\ clock \in Times /\ clock \in Nat /\ Typed(incidents) /\ Keeps(incidents, incidents)
    BY <1>12, TypeFacts DEF vars, IInv, TypeOK, Keeps
  <2>2. StampsOK(incidents)' /\ \A r \in Runs : ~Ended(pc[r]) => clock <= job[r].now + JobMax
    BY <2>1 DEF IInv, StampsOK, JobOK
  <2> QED BY <2>1, <2>2, StandStep
<1> QED BY <1>1, <1>2, <1>3, <1>4, <1>5, <1>6, <1>7, <1>8, <1>9, <1>10, <1>11, <1>12 DEF Next, Step

LEMMA Invariant == Spec => []IInv
BY InitIInv, NextIInv, PTL DEF Spec

\* Issues, jobs and clocks keep their types, and no number passes its bound.
THEOREM TypesAreKept == Spec => []TypeOK
<1>1. IInv => TypeOK
  BY DEF IInv
<1> QED BY <1>1, Invariant, PTL

\* The incident of a kind that came first.
LEMMA FirstExists ==
    ASSUME TypeOK, NEW k, NEW m \in DOMAIN incidents, incidents[m].kind = k
    PROVE  \E n \in DOMAIN incidents : incidents[n].kind = k /\ FirstOfKind(n)
<1> DEFINE S == {n \in DOMAIN incidents : incidents[n].kind = k}
<1>1. S \subseteq Nat /\ S # {}
  BY TypeFacts, Entries
<1>2. PICK n \in S : \A i \in S : <<i, n>> \notin OpToRel(<, Nat)
  <2> HIDE DEF S
  <2> QED BY <1>1, NatLessThanWellFounded, WFMin
<1>3. \A i \in S : ~(i < n)
  BY <1>1, <1>2 DEF OpToRel
<1> QED BY <1>3 DEF FirstOfKind

\* A run that stays silent has a run of its kind that sends: once no job is
\* under way, the first incident of the kind has been opened by one that has
\* decided to send, been cancelled or had its create land twice.
THEOREM SilentRunsHaveATeller == Spec => []SilentIsTold
<1>1. ASSUME IInv PROVE SilentIsTold
  <2>1. ASSUME InFlight = {}, NEW r \in Runs, Silent(r)
        PROVE  \E s \in Runs : /\ KindOf[s] = KindOf[r]
                               /\ Decided(s) \/ pc[s] = "killed" \/ job[s].met = "twice"
    <3>1. PICK m \in DOMAIN incidents : incidents[m].kind = KindOf[r]
      BY <1>1, <2>1 DEF IInv, JobOK, OfKind, Silent
    <3>2. PICK n \in DOMAIN incidents : incidents[n].kind = KindOf[r] /\ FirstOfKind(n)
      BY <1>1, <3>1, FirstExists DEF IInv
    <3>3. PICK s \in Runs : KindOf[s] = KindOf[r] /\ Teller(s, n)
      BY <1>1, <3>2 DEF IInv, TellersOK
    <3>4. pc[s] \in {"idle", "done", "killed"}
      BY <2>1 DEF InFlight
    <3> QED BY <3>3, <3>4 DEF Teller, TellerAt, Decided
  <2> QED BY <2>1 DEF SilentIsTold
<1> QED BY <1>1, Invariant, PTL

\* The incident created last, of those in a set.
LEMMA LastExists ==
    ASSUME TypeOK, StampsOK(incidents), NEW S \in SUBSET DOMAIN incidents, S # {}
    PROVE  \E n \in S : \A m \in S : incidents[m].created <= incidents[n].created
<1> DEFINE Age(n) == clock - incidents[n].created
           Ages == {Age(n) : n \in S}
<1>1. \A n \in S : incidents[n].created \in Nat /\ incidents[n].created <= clock /\ clock \in Nat
  <2>1. \A n \in DOMAIN incidents : incidents[n].created \in Nat /\ incidents[n].updated \in Nat /\ clock \in Nat
    BY TypeFacts, Entries
  <2> QED BY <2>1 DEF StampsOK
<1>2. Ages \subseteq Nat /\ Ages # {}
  BY <1>1
<1>3. PICK age \in Ages : \A other \in Ages : <<other, age>> \notin OpToRel(<, Nat)
  <2> HIDE DEF Ages
  <2> QED BY <1>2, NatLessThanWellFounded, WFMin
<1>4. PICK n \in S : age = Age(n)
  OBVIOUS
<1>5. ASSUME NEW m \in S PROVE incidents[m].created <= incidents[n].created
  <2>1. Age(m) \in Ages /\ Age(m) \in Nat /\ age \in Nat
    BY <1>2
  <2>2. ~(Age(m) < age)
    BY <1>3, <2>1 DEF OpToRel
  <2> QED BY <1>1, <1>4, <2>2
<1> QED BY <1>5

\* The jobs leave one incident of each kind open, as long as no human closes
\* one: the first has not lost its re-check, and an incident that has not lost
\* is only ever closed for one that is created later and has not lost either.
THEOREM OneIsLeftOpen == Spec => []OneStaysOpen
<1>1. ASSUME IInv PROVE OneStaysOpen
  <2> SUFFICES ASSUME NEW k \in Kinds, NEW m \in DOMAIN incidents, incidents[m].kind = k,
                      ~ClosedByHuman(k), OpenIncidents(k) = {}
               PROVE  FALSE
    BY DEF OneStaysOpen
  <2>1. PICK lost, won \in SUBSET Numbers : Coordinated(lost, won)
    BY <1>1 DEF IInv
  <2> DEFINE S == {x \in DOMAIN incidents : incidents[x].kind = k /\ x \notin lost}
  <2>2. PICK n \in DOMAIN incidents : incidents[n].kind = k /\ FirstOfKind(n)
    BY <1>1, FirstExists DEF IInv
  <2>3. n \in S
    BY <2>1, <2>2 DEF Coordinated, LostOK, FirstOfKind
  <2>4. PICK x \in S : \A y \in S : incidents[y].created <= incidents[x].created
    BY <1>1, <2>3, LastExists DEF IInv
  <2>5. incidents[x].state = "closed"
    <3>1. incidents[x].state \in {"open", "closed", "human"}
      BY <1>1, TypeFacts, Entries DEF IInv
    <3> QED BY <3>1 DEF ClosedByHuman, OpenIncidents
  <2>6. PICK z \in won : incidents[z].kind = k /\ incidents[x].created + Window < incidents[z].created
    BY <2>1, <2>5 DEF Coordinated, SupersededOK, Doomed
  <2>7. z \in S
    BY <2>1, <2>6 DEF Coordinated, SetsOK
  <2>8. incidents[x].created \in Nat /\ incidents[z].created \in Nat /\ Window \in Nat
    BY <1>1, <2>7, TypeFacts, Entries, Constants DEF IInv
  <2> QED BY <2>4, <2>6, <2>7, <2>8
<1> QED BY <1>1, Invariant, PTL

\* One outage, one message: of the runs of a kind that start within one window
\* and coordinate all the way, one sends.  This needs create-issues, without
\* which every run sends, and a quiet window in which a job has time to end:
\* with a shorter one a re-check may take place when an incident opened as early
\* as the run's own is out of the window, and two runs win (action.yml has a
\* window of 60 minutes, rca.yml a job of 5).
THEOREM OneOutageOneMessage ==
    ASSUME Enabled, JobMax <= Window
    PROVE  Spec => []OneMessage
<1>1. ASSUME IInv PROVE OneMessage
  <2> SUFFICES ASSUME NEW p \in Runs, NEW q \in Runs, p # q, KindOf[p] = KindOf[q], Decided(p), Decided(q),
                      job[p].now <= job[q].now, job[q].now - job[p].now <= Window,
                      {job[p].met, job[q].met} = {"nothing"}
               PROVE  ClosedByHuman(KindOf[p])
    BY DEF OneMessage
  <2>1. WonRun(p) /\ WonRun(q)
    BY DEF Decided, WonRun
  <2>2. ByHuman(incidents, KindOf[p]) \/ Apart(p, q)
    BY <1>1, <2>1 DEF IInv, WinnersApart, Coordinating
  <2>3. ~Apart(p, q)
    <3>1. job[p].now \in Nat /\ job[q].now \in Nat /\ Window \in Nat
      BY <1>1, TypeFacts, Constants DEF IInv
    <3> QED BY <3>1 DEF Apart
  <2> QED BY <2>2, <2>3 DEF ByHuman, ClosedByHuman
<1> QED BY <1>1, Invariant, PTL
=============================================================================
