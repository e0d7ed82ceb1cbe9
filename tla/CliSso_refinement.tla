-------------------------- MODULE CliSso_refinement --------------------------
(* CliSso keeps the promise of DeviceLogin for every value of its constants: *)
(* each of its steps is a step of DeviceLogin or changes nothing of it.      *)
EXTENDS CliSso_proofs

PeopleOf(l) == {PersonOf(b) : b \in Pages(l)}
ConfirmedBy(l) == {PersonOf(b) : b \in accepted[l]}
People == [l \in Logins |-> PeopleOf(l)]
Confirmed == [l \in Logins |-> ConfirmedBy(l)]

\* A page keeps its person, and accepted codes were typed into pages.
LEMMA PagesKept ==
    ASSUME IInv, [Next]_vars, NEW l \in Logins
    PROVE  /\ Pages(l) \subseteq Pages(l)' /\ accepted[l] \subseteq Pages(l)
           /\ \A b \in Pages(l) : PersonOf(b)' = PersonOf(b)
<1>1. Frame
  BY FrameHolds DEF IInv
<1>2. accepted[l] \in SUBSET Browsers
  BY DEF IInv, Typed, TypeOK
<1> QED
  BY <1>1, <1>2 DEF IInv, Frame, Pages, PersonOf, CodeBeforeToken

LEMMA PeopleKept ==
    ASSUME IInv, [Next]_vars, \A l \in Logins : Pages(l)' = Pages(l)
    PROVE  People' = People
<1>1. \A l \in Logins : PeopleOf(l)' = PeopleOf(l)
  BY PagesKept DEF PeopleOf
<1> QED
  BY <1>1 DEF People

LEMMA ConfirmedKept ==
    ASSUME IInv, [Next]_vars, accepted' = accepted
    PROVE  Confirmed' = Confirmed
<1>1. \A l \in Logins : ConfirmedBy(l)' = ConfirmedBy(l)
  BY PagesKept DEF ConfirmedBy
<1> QED
  BY <1>1 DEF Confirmed

\* Only the end of a callback renders a page.
LEMMA SamePages ==
    ASSUME IInv, [Next]_vars,
           \A b \in Browsers : trip'[b].pc = "page" => trip[b].pc = "page",
           NEW l \in Logins
    PROVE  Pages(l)' = Pages(l)
<1>1. \A b \in Browsers : trip[b].pc = "page" => trip'[b] = trip[b]
  BY FrameHolds DEF IInv, Frame
<1> QED
  BY <1>1 DEF Pages

\* The steps DeviceLogin knows nothing of.
LEMMA Unseen ==
    ASSUME IInv, [Next]_vars, UNCHANGED <<started, tokens, issues, accepted>>,
           \A b \in Browsers : trip'[b].pc = "page" => trip[b].pc = "page"
    PROVE  UNCHANGED Promise!vars
BY SamePages, PeopleKept, ConfirmedKept 
   DEF Promise!vars, People, Confirmed, PeopleOf, ConfirmedBy

LEMMA Simulates ==
    ASSUME IInv, Drawn, [Next]_vars
    PROVE  [Promise!Next]_Promise!vars
<1> DEFINE Goal == Promise!Next \/ UNCHANGED Promise!vars
<1> SUFFICES Goal
  OBVIOUS
<1>a. /\ trip \in [Browsers -> Trip] /\ accepted \in [Logins -> SUBSET Browsers]
      /\ tokens \in [Logins -> SUBSET Token] /\ issues \in [Logins -> Nat]
      /\ flow \in [Logins -> Flow] /\ post \in [Posts -> Post]
  BY DEF IInv, Typed, TypeOK
<1>1. CASE UNCHANGED vars
  BY <1>1, Unseen DEF vars
<1>2. ASSUME NEW ip \in Ips, NEW l \in Logins, Start(ip, l) PROVE Goal
  <2>1. People' = People /\ Confirmed' = Confirmed
    BY <1>2, SamePages, PeopleKept, ConfirmedKept DEF Start
  <2>2. Promise!Begin(l)
    BY <1>2, <2>1 DEF Start, Promise!Begin, People, Confirmed, PeopleOf,
       ConfirmedBy
  <2> QED
    BY <2>2 DEF Promise!Next
<1>3. ASSUME NEW ip \in Ips, StartRefused(ip) \/ WindowExpires(ip) PROVE Goal
  BY <1>3, Unseen DEF StartRefused, WindowExpires
<1>4. ASSUME NEW l \in Logins, Expire(l) PROVE Goal
  BY <1>4, Unseen DEF Expire
<1>5. ASSUME NEW b \in Browsers, NEW l \in Logins, Open(b, l) PROVE Goal
  <2>1. \A c \in Browsers : trip'[c].pc = "page" => trip[c].pc = "page"
    BY <1>5, <1>a DEF Open, Trip
  <2> QED
    BY <1>5, <2>1, Unseen DEF Open
<1>6. ASSUME NEW b \in Browsers, NEW u \in Users, CallbackRead(b, u) PROVE Goal
  <2>1. \A c \in Browsers : trip'[c].pc = "page" => trip[c].pc = "page"
    BY <1>6, <1>a DEF CallbackRead, Trip
  <2> QED
    BY <1>6, <2>1, Unseen DEF CallbackRead
<1>7. ASSUME NEW b \in Browsers, CallbackFail(b) PROVE Goal
  <2>1. \A c \in Browsers : trip'[c].pc = "page" => trip[c].pc = "page"
    BY <1>7, <1>a DEF CallbackFail, Trip
  <2> QED
    BY <1>7, <2>1, Unseen DEF CallbackFail
<1>8. ASSUME NEW b \in Browsers, NEW teams \in SUBSET Teams, CallbackStore(b, teams)
      PROVE  Goal
  <2>0. PICK l \in Logins : l = trip[b].login
    BY <1>8 DEF CallbackStore, IInv, Typed, Underway
  <2>1. l \in started /\ trip[b].user \in Users
    BY <1>8, <2>0 DEF CallbackStore, IInv, Typed, Underway, Drawn
  <2>p. PICK person \in Promise!Person : person = [user |-> trip[b].user, teams |-> teams]
    BY <2>1 DEF Promise!Person
  <2>2. /\ trip'[b].pc = "page" /\ trip'[b].login = l
        /\ trip'[b].user = trip[b].user /\ trip'[b].teams = teams
        /\ \A c \in Browsers \ {b} : trip'[c] = trip[c]
        /\ trip[b].pc = "db"
    BY <1>8, <1>a, <2>0 DEF CallbackStore, Trip
  <2>3. Pages(l)' = Pages(l) \cup {b} /\ PersonOf(b)' = person
    BY <2>2, <2>p DEF Pages, PersonOf
  <2>4. \A k \in Logins \ {l} : Pages(k)' = Pages(k)
    BY <2>2 DEF Pages
  <2>5. PeopleOf(l)' = PeopleOf(l) \cup {person}
    BY <2>1, <2>3, PagesKept DEF PeopleOf
  <2>6. \A k \in Logins \ {l} : PeopleOf(k)' = PeopleOf(k)
    BY <2>4, PagesKept DEF PeopleOf
  <2>7. People' = [People EXCEPT ![l] = @ \cup {person}]
    BY <2>1, <2>5, <2>6 DEF People
  <2>8. Confirmed' = Confirmed
    BY <1>8, ConfirmedKept DEF CallbackStore
  <2>9. Promise!ComeBack(l, person)
    BY <1>8, <2>1, <2>7, <2>8 DEF CallbackStore, Promise!ComeBack, People, Confirmed,
       PeopleOf, ConfirmedBy
  <2> QED
    BY <2>9 DEF Promise!Next
<1>9. ASSUME NEW p \in Posts, NEW b \in Browsers, CompleteRead(p, b) PROVE Goal
  BY <1>9, Unseen DEF CompleteRead
<1>10. ASSUME NEW p \in Posts, NEW code \in Logins, CompleteStore(p, code) PROVE Goal
  <2>1. PICK b \in Browsers : b = post[p].page /\ trip[b].pc = "page"
    BY <1>10 DEF CompleteStore, IInv, Typed, Underway
  <2>2. PICK l \in Logins : l = trip[b].login
    BY <2>1 DEF IInv, Typed, Underway
  <2>3. /\ accepted' = [accepted EXCEPT ![l] = @ \cup {b}]
        /\ trip' = trip /\ b \in Pages(l)
    BY <1>10, <2>1, <2>2 DEF CompleteStore, Pages
  <2>4. People' = People
    BY <2>3, SamePages, PeopleKept
  <2>5. \A c : PersonOf(c)' = PersonOf(c)
    BY <2>3 DEF PersonOf
  <2>6. ConfirmedBy(l)' = ConfirmedBy(l) \cup {PersonOf(b)}
    BY <1>a, <2>3, <2>5 DEF ConfirmedBy
  <2>7. \A k \in Logins \ {l} : ConfirmedBy(k)' = ConfirmedBy(k)
    BY <1>a, <2>3, <2>5 DEF ConfirmedBy
  <2>8. PersonOf(b) \in People[l] /\ PersonOf(b) \in Promise!Person
    BY <1>a, <2>1, <2>3
    DEF People, PeopleOf, PersonOf, Promise!Person, Trip, IInv, Typed, Underway
  <2>p. PICK person \in Promise!Person : person = PersonOf(b)
    BY <2>8
  <2>9. Confirmed' = [Confirmed EXCEPT ![l] = @ \cup {person}]
    BY <2>6, <2>7, <2>p DEF Confirmed
  <2>10. Promise!Confirm(l, person)
    BY <1>10, <2>4, <2>8, <2>9, <2>p
    DEF CompleteStore, Promise!Confirm, People, Confirmed, PeopleOf, ConfirmedBy
  <2> QED
    BY <2>10 DEF Promise!Next
<1>11. ASSUME NEW p \in Posts, NEW code \in Logins, CompleteReject(p, code) PROVE Goal
  BY <1>11, Unseen DEF CompleteReject
<1>12. ASSUME NEW l \in Logins, NEW secret \in Logins, NEW asked \in Teams \cup {None},
              NEW team \in Teams \cup {None}, PollIssue(l, secret, asked, team)
       PROVE  Goal
  <2> DEFINE s == flow[l].session_data
             b == flow[l].browser_token
             person == PersonOf(b)
  <2>1. Sound(flow[l], l, trip, accepted) /\ Ready(l) /\ secret = l
    BY <1>12 DEF IInv, FlowsSound, PollIssue
  <2>2. b \in Browsers /\ accepted[l] # {}
    BY <1>a, <2>1 DEF Sound, Ready, Flow
  <2>3. b \in Pages(l) /\ s = person /\ trip[b].pc = "page"
    BY <2>1, <2>2, NoneAssumption DEF Sound, Pages, PersonOf
  <2>4. person \in People[l] /\ person \in Promise!Person
    BY <1>a, <2>2, <2>3
    DEF People, PeopleOf, PersonOf, Promise!Person, Trip, IInv, Typed, Underway
  <2>5. Confirmed[l] # {}
    BY <2>2 DEF Confirmed, ConfirmedBy
  <2>6. People' = People /\ Confirmed' = Confirmed
    BY <1>12, SamePages, PeopleKept, ConfirmedKept DEF PollIssue
  <2>7. Promise!MayHave(person, team)
    <3>1. TeamGranted(s.teams, asked, team) /\ s.teams \subseteq Teams
      BY <1>12, <2>3, <2>4 DEF PollIssue, Promise!Person
    <3> HIDE DEF s, person
    <3> QED
      BY <2>3, <3>1, NoneAssumption DEF TeamGranted, Promise!MayHave
  <2>8. tokens' = [tokens EXCEPT ![l] = @ \cup {Promise!TokenFor(person, team, l)}]
    BY <1>12, <2>1, <2>3 DEF PollIssue, Promise!TokenFor
  <2> HIDE DEF s, b, person
  <2>9. Promise!Grant(l, person, team)
    BY <1>12, <2>4, <2>5, <2>6, <2>7, <2>8
    DEF PollIssue, Promise!Grant, People, Confirmed, PeopleOf, ConfirmedBy
  <2> QED
    BY <2>4, <2>9 DEF Promise!Next
<1> HIDE DEF Goal
<1> QED
  BY <1>1, <1>2, <1>3, <1>4, <1>5, <1>6, <1>7, <1>8, <1>9, <1>10, <1>11, <1>12
  DEF Next, Poll

\* KeepsPromise holds of any number of logins, browsers and requests and of both
\* kinds of cache.
THEOREM KeepsPromiseHolds == Spec => KeepsPromise
<1>1. Init => Promise!Init
  <2> SUFFICES ASSUME Init PROVE Promise!Init
    OBVIOUS
  <2>1. \A l \in Logins : Pages(l) = {} /\ accepted[l] = {}
    BY DEF Init, Pages
  <2>2. \A l \in Logins : {PersonOf(b) : b \in Pages(l)} = {}
                          /\ {PersonOf(b) : b \in accepted[l]} = {}
    BY <2>1
  <2> QED
    BY <2>2 DEF Init, Promise!Init
<1>2. IInv /\ Drawn /\ [Next]_vars => [Promise!Next]_Promise!vars
  BY Simulates
<1> QED
  BY <1>1, <1>2, Inductive, DrawnHolds, PTL DEF Spec, KeepsPromise, Promise!Spec
=============================================================================
