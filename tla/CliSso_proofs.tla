---------------------------- MODULE CliSso_proofs ----------------------------
(* Theorems of CliSso for every value of its constants, checked by TLAPS.   *)
EXTENDS CliSso, TLAPS

(***************************************************************************)
(* Type correctness.  TypeOK is not inductive: a callback files its session *)
(* under trip[b].login, which must be a login and not None.                 *)
(***************************************************************************)
Underway ==
    /\ \A b \in Browsers :
          /\ trip[b].pc # "home" => trip[b].login \in Logins
          /\ trip[b].pc \in {"db", "page"} => trip[b].user \in Users
    /\ \A p \in Posts : post[p].pc = "body" =>
          post[p].page \in Browsers /\ trip[post[p].page].pc = "page"

Typed == TypeOK /\ Underway

LEMMA FreshFlowType == FreshFlow \in Flow
BY DEF FreshFlow, Flow, NoSession

LEMMA SnapshotType == ASSUME TypeOK, NEW l \in Logins PROVE Snapshot(l) \in Flow
BY FreshFlowType DEF TypeOK, Snapshot

LEMMA HeldType == ASSUME TypeOK, NEW l \in Logins, NEW snap \in Flow
                  PROVE  Held(l, snap) \in Flow
BY DEF TypeOK, Held

LEMMA TypeInit == Init => Typed
BY BoundsAssumption, NoneAssumption, FreshFlowType
   DEF Init, TypeOK, Trip, Post, IdlePost, Typed, Underway

\* A browser trip that moves on, and what that has to respect.
LEMMA TripMoves ==
    ASSUME Typed, NEW b \in Browsers, NEW r \in Trip,
           trip' = [trip EXCEPT ![b] = r], post' = post,
           r.pc # "home" => r.login \in Logins,
           r.pc \in {"db", "page"} => r.user \in Users,
           trip[b].pc # "page"
    PROVE  trip' \in [Browsers -> Trip] /\ Underway'
<1>1. trip \in [Browsers -> Trip]
  BY DEF Typed, TypeOK
<1>2. trip' \in [Browsers -> Trip]
  BY <1>1
<1>3. ASSUME NEW c \in Browsers
      PROVE  /\ trip'[c].pc # "home" => trip'[c].login \in Logins
             /\ trip'[c].pc \in {"db", "page"} => trip'[c].user \in Users
  BY <1>1 DEF Typed, Underway
<1>4. ASSUME NEW p \in Posts, post'[p].pc = "body"
      PROVE  post'[p].page \in Browsers /\ trip'[post'[p].page].pc = "page"
  BY <1>1, <1>4 DEF Typed, Underway
<1> QED
  BY <1>2, <1>3, <1>4 DEF Underway

LEMMA TypeNext == Typed /\ [Next]_vars => Typed'
<1> SUFFICES ASSUME Typed, [Next]_vars PROVE Typed'
  OBVIOUS
<1>1. CASE UNCHANGED vars
  BY <1>1 DEF Typed, TypeOK, Underway, vars
<1>2. ASSUME NEW ip \in Ips, NEW l \in Logins, Start(ip, l) PROVE Typed'
  BY <1>2, FreshFlowType DEF Typed, TypeOK, Underway, Start, SetFlow
<1>3. ASSUME NEW ip \in Ips, StartRefused(ip) PROVE Typed'
  BY <1>3 DEF Typed, TypeOK, Underway, StartRefused
<1>4. ASSUME NEW ip \in Ips, WindowExpires(ip) PROVE Typed'
  BY <1>4 DEF Typed, TypeOK, Underway, WindowExpires
<1>5. ASSUME NEW l \in Logins, Expire(l) PROVE Typed'
  BY <1>5 DEF Typed, TypeOK, Underway, Expire
<1>6. ASSUME NEW b \in Browsers, NEW l \in Logins, Open(b, l) PROVE Typed'
  <2> DEFINE r == [trip[b] EXCEPT !.pc = "idp", !.login = l]
  <2>1. r \in Trip /\ r.pc = "idp" /\ r.login = l
    BY DEF Typed, TypeOK, Trip
  <2>2. trip' = [trip EXCEPT ![b] = r] /\ post' = post /\ trip[b].pc # "page"
    BY <1>6 DEF Open
  <2> HIDE DEF r
  <2>3. trip' \in [Browsers -> Trip] /\ Underway'
    BY <2>1, <2>2, TripMoves
  <2> QED
    BY <1>6, <2>3 DEF Typed, TypeOK, Open
<1>7. ASSUME NEW b \in Browsers, NEW u \in Users, CallbackRead(b, u)
      PROVE Typed'
  <2>1. Snapshot(trip[b].login) \in Flow
    BY <1>7, SnapshotType DEF Typed, TypeOK, CallbackRead
  <2> DEFINE r == [trip[b] EXCEPT !.pc = "db", !.user = u,
                                  !.snap = Snapshot(trip[b].login)]
  <2>2. r \in Trip /\ r.pc = "db" /\ r.user = u /\ r.login \in Logins
    BY <1>7, <2>1 DEF Typed, TypeOK, CallbackRead, Trip
  <2>3. trip' = [trip EXCEPT ![b] = r] /\ post' = post /\ trip[b].pc # "page"
    BY <1>7 DEF CallbackRead
  <2> HIDE DEF r
  <2>4. trip' \in [Browsers -> Trip] /\ Underway'
    BY <2>2, <2>3, TripMoves
  <2> QED
    BY <1>7, <2>4 DEF Typed, TypeOK, CallbackRead
<1>8. ASSUME NEW b \in Browsers, CallbackFail(b) PROVE Typed'
  <2> DEFINE r == [trip[b] EXCEPT !.pc = "failed", !.snap = FreshFlow]
  <2>1. r \in Trip /\ r.pc = "failed" /\ r.login \in Logins
    BY <1>8, FreshFlowType, ZenonT(60) DEF Typed, TypeOK, Underway, CallbackFail, Trip
  <2>2. trip' = [trip EXCEPT ![b] = r] /\ post' = post /\ trip[b].pc # "page"
    BY <1>8 DEF CallbackFail
  <2> HIDE DEF r
  <2>3. trip' \in [Browsers -> Trip] /\ Underway'
    BY <2>1, <2>2, TripMoves
  <2> QED
    BY <1>8, <2>3 DEF Typed, TypeOK, CallbackFail
<1>9. ASSUME NEW b \in Browsers, NEW teams \in SUBSET Teams, CallbackStore(b, teams)
      PROVE Typed'
  <2> DEFINE l == trip[b].login
             f == [Held(l, trip[b].snap) EXCEPT
                     !.session_data = [user |-> trip[b].user, teams |-> teams],
                     !.sso_complete = TRUE,
                     !.browser_token = b]
  <2>1. l \in Logins /\ trip[b].user \in Users
    BY <1>9 DEF Typed, Underway, CallbackStore
  <2>2. Held(l, trip[b].snap) \in Flow
    BY <2>1, HeldType DEF Typed, TypeOK, Trip
  <2>3. f \in Flow
    BY <2>1, <2>2 DEF Flow, Session
  <2>4. flow' = [flow EXCEPT ![l] = f] /\ cached' = cached \cup {l}
    BY <1>9 DEF CallbackStore, SetFlow
  <2> HIDE DEF l, f
  <2>5. flow' \in [Logins -> Flow] /\ cached' \in SUBSET Logins
    BY <2>1, <2>3, <2>4 DEF Typed, TypeOK
  <2> DEFINE r == [trip[b] EXCEPT !.pc = "page", !.teams = teams, !.snap = FreshFlow]
  <2>6. r \in Trip /\ r.pc = "page" /\ r.login \in Logins /\ r.user \in Users
    BY <1>9, FreshFlowType, ZenonT(60) DEF Typed, TypeOK, Underway, CallbackStore, Trip
  <2>7. trip' = [trip EXCEPT ![b] = r] /\ post' = post /\ trip[b].pc # "page"
    BY <1>9 DEF CallbackStore
  <2> HIDE DEF r
  <2>8. trip' \in [Browsers -> Trip] /\ Underway'
    BY <2>6, <2>7, TripMoves
  <2> QED
    BY <1>9, <2>5, <2>8 DEF Typed, TypeOK, CallbackStore
<1>10. ASSUME NEW p \in Posts, NEW b \in Browsers, CompleteRead(p, b)
       PROVE Typed'
  <2>1. Snapshot(trip[b].login) \in Flow
    BY <1>10, SnapshotType DEF Typed, TypeOK, CompleteRead
  <2> QED
    BY <1>10, <2>1 DEF Typed, TypeOK, Underway, CompleteRead, Post
<1>11. ASSUME NEW p \in Posts, NEW code \in Logins, CompleteStore(p, code)
       PROVE Typed'
  <2> DEFINE l == trip[post[p].page].login
             f == [Held(l, post[p].snap) EXCEPT !.user_code_verified = TRUE]
  <2>1. l \in Logins /\ post[p].page \in Browsers
    BY <1>11 DEF Typed, Underway, CompleteStore
  <2>2. Held(l, post[p].snap) \in Flow
    BY <2>1, HeldType DEF Typed, TypeOK, Post
  <2>3. f \in Flow
    BY <2>2 DEF Flow
  <2>4. flow' = [flow EXCEPT ![l] = f] /\ cached' = cached \cup {l}
    BY <1>11 DEF CompleteStore, SetFlow
  <2>5. accepted' = [accepted EXCEPT ![l] = @ \cup {post[p].page}]
    BY <1>11 DEF CompleteStore
  <2> HIDE DEF l, f
  <2>6. flow' \in [Logins -> Flow] /\ cached' \in SUBSET Logins
    BY <2>1, <2>3, <2>4 DEF Typed, TypeOK
  <2>7. accepted' \in [Logins -> SUBSET Browsers]
    BY <2>1, <2>5 DEF Typed, TypeOK
  <2> QED
    BY <1>11, <2>6, <2>7, FreshFlowType
    DEF Typed, TypeOK, Underway, CompleteStore, Post, IdlePost
<1>12. ASSUME NEW p \in Posts, NEW code \in Logins, CompleteReject(p, code)
       PROVE Typed'
  BY <1>12, FreshFlowType DEF Typed, TypeOK, Underway, CompleteReject, Post, IdlePost
<1>13. ASSUME NEW l \in Logins, Poll(l) PROVE Typed'
  <2>1. PICK secret \in Logins, asked \in Teams \cup {None}, team \in Teams \cup {None} :
           PollIssue(l, secret, asked, team)
    BY <1>13 DEF Poll
  <2>2. flow[l].session_data.user \in Users
    BY <2>1 DEF Typed, TypeOK, PollIssue, Ready, Flow, Session
  <2>3. [user |-> flow[l].session_data.user, team |-> team, cli |-> secret] \in Token
    BY <2>2 DEF Token
  <2> QED
    BY <2>1, <2>3 DEF Typed, TypeOK, Underway, PollIssue
<1> QED
  BY <1>1, <1>2, <1>3, <1>4, <1>5, <1>6, <1>7, <1>8, <1>9, <1>10, <1>11, <1>12,
     <1>13 DEF Next

\* Every reachable state is well typed: no handler files a session without a
\* user, writes to a login that was never drawn, or issues a token for nobody.
THEOREM TypeCorrect == Spec => []TypeOK
<1>1. Init => Typed
  BY TypeInit
<1>2. Typed /\ [Next]_vars => Typed'
  BY TypeNext
<1> QED
  BY <1>1, <1>2, PTL DEF Spec, Typed

(***************************************************************************)
(* Safety.  The inductive invariant says, of every copy of the dict there   *)
(* is (the cached one and those handlers in flight hold), that it is sound: *)
(* its session is that of the page whose browser token it carries, and it   *)
(* is marked verified only when a code was accepted for the login.          *)
(***************************************************************************)
Sound(f, l, trips, acc) ==
    /\ IF f.browser_token = None
       THEN f.session_data = NoSession /\ ~f.sso_complete /\ ~f.user_code_verified
       ELSE /\ trips[f.browser_token].pc = "page"
            /\ trips[f.browser_token].login = l
            /\ f.session_data = [user |-> trips[f.browser_token].user,
                                 teams |-> trips[f.browser_token].teams]
            /\ f.sso_complete
    /\ f.user_code_verified => acc[l] # {}

FlowsSound == \A l \in Logins : Sound(flow[l], l, trip, accepted)
TripsSound == \A b \in Browsers : trip[b].pc = "db" =>
                 Sound(trip[b].snap, trip[b].login, trip, accepted)
PostsSound == \A p \in Posts : post[p].pc = "body" =>
                 Sound(post[p].snap, trip[post[p].page].login, trip, accepted)

IInv == /\ Typed
        /\ FlowsSound /\ TripsSound /\ PostsSound
        /\ CodeBeforeToken
        /\ TokenProvenance

\* What no step undoes: a page stays as it was rendered, a trip keeps its
\* login, and an accepted code stays accepted.
Frame ==
    /\ \A b \in Browsers : trip[b].pc = "page" => trip'[b] = trip[b]
    /\ \A b \in Browsers : trip[b].pc # "home" => trip'[b].login = trip[b].login
    /\ \A l \in Logins : accepted[l] \subseteq accepted'[l]

LEMMA FrameHolds == ASSUME Typed, [Next]_vars PROVE Frame
<1>1. trip \in [Browsers -> Trip] /\ accepted \in [Logins -> SUBSET Browsers]
  BY DEF Typed, TypeOK
<1>2. CASE UNCHANGED <<trip, accepted>>
  BY <1>1, <1>2 DEF Frame
<1>3. ASSUME NEW b \in Browsers, NEW r, trip' = [trip EXCEPT ![b] = r],
             trip[b].pc # "page", trip[b].pc # "home" => r.login = trip[b].login,
             accepted' = accepted
      PROVE  Frame
  BY <1>1, <1>3 DEF Frame
<1>4. ASSUME NEW b \in Browsers, NEW l \in Logins, Open(b, l) PROVE Frame
  <2>1. trip' = [trip EXCEPT ![b] = [trip[b] EXCEPT !.pc = "idp", !.login = l]]
    BY <1>4 DEF Open
  <2> QED
    BY <1>3, <1>4, <2>1 DEF Open
<1>5. ASSUME NEW b \in Browsers, NEW u \in Users, CallbackRead(b, u) PROVE Frame
  <2> DEFINE r == [trip[b] EXCEPT !.pc = "db", !.user = u,
                                  !.snap = Snapshot(trip[b].login)]
  <2>1. trip' = [trip EXCEPT ![b] = r] /\ r.login = trip[b].login
    BY <1>1, <1>5 DEF CallbackRead, Trip
  <2> QED
    BY <1>3, <1>5, <2>1 DEF CallbackRead
<1>6. ASSUME NEW b \in Browsers, CallbackFail(b) PROVE Frame
  <2> DEFINE r == [trip[b] EXCEPT !.pc = "failed", !.snap = FreshFlow]
  <2>1. trip' = [trip EXCEPT ![b] = r] /\ r.login = trip[b].login
    BY <1>1, <1>6 DEF CallbackFail, Trip
  <2> QED
    BY <1>3, <1>6, <2>1 DEF CallbackFail
<1>7. ASSUME NEW b \in Browsers, NEW teams \in SUBSET Teams, CallbackStore(b, teams)
      PROVE  Frame
  <2> DEFINE r == [trip[b] EXCEPT !.pc = "page", !.teams = teams, !.snap = FreshFlow]
  <2>1. trip' = [trip EXCEPT ![b] = r] /\ r.login = trip[b].login
    BY <1>1, <1>7 DEF CallbackStore, Trip
  <2> QED
    BY <1>3, <1>7, <2>1 DEF CallbackStore
<1>8. ASSUME NEW p \in Posts, NEW code \in Logins, CompleteStore(p, code) PROVE Frame
  BY <1>1, <1>8 DEF Frame, CompleteStore
<1> QED
  BY <1>2, <1>4, <1>5, <1>6, <1>7, <1>8
  DEF Next, vars, Start, StartRefused, WindowExpires, Expire, CompleteRead,
      CompleteReject, Poll, PollIssue

\* A sound dict stays sound while nobody writes it.
LEMMA SoundStays ==
    ASSUME Typed, Frame, NEW f \in Flow, NEW l \in Logins, Sound(f, l, trip, accepted)
    PROVE  Sound(f, l, trip', accepted')
BY DEF Frame, Sound, Flow

\* The dict a handler reads or goes on with is sound when all dicts are.
LEMMA SnapshotSound ==
    ASSUME IInv, NEW l \in Logins PROVE Sound(Snapshot(l), l, trip, accepted)
BY DEF IInv, FlowsSound, Snapshot, Sound, FreshFlow, NoSession

LEMMA HeldSound ==
    ASSUME IInv, NEW l \in Logins, NEW snap \in Flow, Sound(snap, l, trip, accepted)
    PROVE  Sound(Held(l, snap), l, trip, accepted)
BY DEF IInv, FlowsSound, Held

LEMMA FlowsSoundNext == ASSUME IInv, [Next]_vars PROVE FlowsSound'
<1> USE DEF IInv
<1>1. Frame
  BY FrameHolds
<1>2. flow \in [Logins -> Flow]
  BY DEF Typed, TypeOK
<1>3. ASSUME NEW k \in Logins, NEW f \in Flow, Sound(f, k, trip', accepted'),
             flow' = [flow EXCEPT ![k] = f]
      PROVE  FlowsSound'
  <2> SUFFICES ASSUME NEW l \in Logins PROVE Sound(flow'[l], l, trip', accepted')
    BY DEF FlowsSound
  <2>1. CASE l = k
    BY <1>2, <1>3, <2>1
  <2>2. CASE l # k
    <3>1. flow'[l] = flow[l] /\ flow[l] \in Flow
      BY <1>2, <1>3, <2>2
    <3> QED
      BY <1>1, <3>1, SoundStays DEF FlowsSound
  <2> QED
    BY <2>1, <2>2
<1>4. CASE flow' = flow
  <2> SUFFICES ASSUME NEW l \in Logins PROVE Sound(flow'[l], l, trip', accepted')
    BY DEF FlowsSound
  <2> QED
    BY <1>1, <1>2, <1>4, SoundStays DEF FlowsSound
<1>5. ASSUME NEW ip \in Ips, NEW l \in Logins, Start(ip, l) PROVE FlowsSound'
  <2>1. Sound(FreshFlow, l, trip', accepted')
    BY DEF Sound, FreshFlow
  <2> QED
    BY <1>3, <1>5, <2>1, FreshFlowType DEF Start, SetFlow
<1>6. ASSUME NEW b \in Browsers, NEW teams \in SUBSET Teams, CallbackStore(b, teams)
      PROVE  FlowsSound'
  <2> DEFINE l == trip[b].login
             h == Held(l, trip[b].snap)
             f == [h EXCEPT
                     !.session_data = [user |-> trip[b].user, teams |-> teams],
                     !.sso_complete = TRUE,
                     !.browser_token = b]
  <2>1. l \in Logins /\ trip[b].user \in Users /\ trip[b].snap \in Flow
        /\ trip[b].pc = "db"
    BY <1>6 DEF Typed, TypeOK, Trip, Underway, CallbackStore
  <2>2. h \in Flow
    BY <2>1, HeldType DEF Typed
  <2>3. Sound(h, l, trip, accepted)
    BY <2>1, HeldSound DEF TripsSound
  <2>4. Sound(h, l, trip', accepted')
    BY <1>1, <2>1, <2>2, <2>3, SoundStays
  <2> HIDE DEF h
  <2>5. f \in Flow
    BY <2>1, <2>2 DEF Flow, Session
  <2>6. /\ f.user_code_verified = h.user_code_verified
        /\ f.browser_token = b /\ f.sso_complete
        /\ f.session_data = [user |-> trip[b].user, teams |-> teams]
    BY <2>2 DEF Flow
  <2>7. trip'[b].pc = "page" /\ trip'[b].login = l /\ trip'[b].user = trip[b].user
        /\ trip'[b].teams = teams
    BY <1>6 DEF Typed, TypeOK, Trip, CallbackStore
  <2>8. flow' = [flow EXCEPT ![l] = f]
    BY <1>6 DEF CallbackStore, SetFlow, h
  <2> HIDE DEF f, l
  <2>9. Sound(f, l, trip', accepted')
    BY <2>4, <2>6, <2>7, NoneAssumption DEF Sound
  <2> QED
    BY <1>3, <2>1, <2>5, <2>8, <2>9
<1>7. ASSUME NEW p \in Posts, NEW code \in Logins, CompleteStore(p, code)
      PROVE  FlowsSound'
  <2> DEFINE b == post[p].page
             l == trip[b].login
             h == Held(l, post[p].snap)
             f == [h EXCEPT !.user_code_verified = TRUE]
  <2>1. b \in Browsers /\ l \in Logins /\ post[p].snap \in Flow /\ post[p].pc = "body"
    BY <1>7 DEF Typed, TypeOK, Post, Underway, CompleteStore
  <2>2. h \in Flow
    BY <2>1, HeldType DEF Typed
  <2>3. Sound(h, l, trip, accepted)
    BY <2>1, HeldSound DEF PostsSound
  <2>4. Sound(h, l, trip', accepted')
    BY <1>1, <2>1, <2>2, <2>3, SoundStays
  <2>5. h.browser_token = b
    BY <1>7 DEF CompleteStore, CodeAccepted
  <2>6. accepted'[l] # {}
    BY <1>7, <2>1 DEF CompleteStore, Typed, TypeOK
  <2>7. flow' = [flow EXCEPT ![l] = f]
    BY <1>7 DEF CompleteStore, SetFlow
  <2> HIDE DEF h, l, b
  <2>8. f \in Flow /\ f.user_code_verified /\ f.browser_token = h.browser_token
        /\ f.session_data = h.session_data /\ f.sso_complete = h.sso_complete
    BY <2>2 DEF Flow
  <2> HIDE DEF f
  <2>9. Sound(f, l, trip', accepted')
    BY <2>1, <2>4, <2>5, <2>6, <2>8, NoneAssumption DEF Sound
  <2> QED
    BY <1>3, <2>1, <2>7, <2>8, <2>9
<1> QED
  BY <1>4, <1>5, <1>6, <1>7
  DEF Next, vars, StartRefused, WindowExpires, Expire, Open, CallbackRead,
      CallbackFail, CompleteRead, CompleteReject, Poll, PollIssue

LEMMA TripsSoundNext == ASSUME IInv, [Next]_vars PROVE TripsSound'
<1> USE DEF IInv
<1>1. Frame
  BY FrameHolds
<1>2. trip \in [Browsers -> Trip]
  BY DEF Typed, TypeOK
<1>3. ASSUME NEW c \in Browsers, trip[c].pc = "db", trip'[c] = trip[c]
      PROVE  Sound(trip'[c].snap, trip'[c].login, trip', accepted')
  <2>1. trip[c].login \in Logins /\ trip[c].snap \in Flow
    BY <1>2, <1>3 DEF Trip, Typed, Underway
  <2>2. Sound(trip[c].snap, trip[c].login, trip, accepted)
    BY <1>3 DEF TripsSound
  <2>3. Sound(trip[c].snap, trip[c].login, trip', accepted')
    BY <1>1, <2>1, <2>2, SoundStays
  <2> QED
    BY <1>3, <2>3
<1>4. CASE trip' = trip
  <2> SUFFICES ASSUME NEW c \in Browsers, trip'[c].pc = "db"
               PROVE  Sound(trip'[c].snap, trip'[c].login, trip', accepted')
    BY DEF TripsSound
  <2> QED
    BY <1>3, <1>4
<1>5. ASSUME NEW b \in Browsers, NEW r, trip' = [trip EXCEPT ![b] = r], r.pc # "db"
      PROVE  TripsSound'
  <2> SUFFICES ASSUME NEW c \in Browsers, trip'[c].pc = "db"
               PROVE  Sound(trip'[c].snap, trip'[c].login, trip', accepted')
    BY DEF TripsSound
  <2>1. c # b /\ trip'[c] = trip[c]
    BY <1>2, <1>5
  <2> QED
    BY <1>3, <2>1
<1>6. ASSUME NEW b \in Browsers, NEW l \in Logins, Open(b, l) PROVE TripsSound'
  <2>1. trip' = [trip EXCEPT ![b] = [trip[b] EXCEPT !.pc = "idp", !.login = l]]
        /\ [trip[b] EXCEPT !.pc = "idp", !.login = l].pc # "db"
    BY <1>2, <1>6 DEF Open, Trip
  <2> QED
    BY <1>5, <2>1
<1>7. ASSUME NEW b \in Browsers, CallbackFail(b) PROVE TripsSound'
  <2>1. trip' = [trip EXCEPT ![b] = [trip[b] EXCEPT !.pc = "failed", !.snap = FreshFlow]]
        /\ [trip[b] EXCEPT !.pc = "failed", !.snap = FreshFlow].pc # "db"
    BY <1>2, <1>7 DEF CallbackFail, Trip
  <2> QED
    BY <1>5, <2>1
<1>8. ASSUME NEW b \in Browsers, NEW teams \in SUBSET Teams, CallbackStore(b, teams)
      PROVE  TripsSound'
  <2> DEFINE r == [trip[b] EXCEPT !.pc = "page", !.teams = teams, !.snap = FreshFlow]
  <2>1. trip' = [trip EXCEPT ![b] = r] /\ r.pc # "db"
    BY <1>2, <1>8 DEF CallbackStore, Trip
  <2> QED
    BY <1>5, <2>1
<1>9. ASSUME NEW b \in Browsers, NEW u \in Users, CallbackRead(b, u) PROVE TripsSound'
  <2>1. trip[b].login \in Logins
    BY <1>9 DEF CallbackRead, Typed, Underway
  <2>2. Sound(Snapshot(trip[b].login), trip[b].login, trip, accepted)
    BY <2>1, SnapshotSound
  <2>3. Snapshot(trip[b].login) \in Flow
    BY <2>1, SnapshotType DEF Typed
  <2>4. Sound(Snapshot(trip[b].login), trip[b].login, trip', accepted')
    BY <1>1, <2>1, <2>2, <2>3, SoundStays
  <2>5. trip'[b].login = trip[b].login /\ trip'[b].snap = Snapshot(trip[b].login)
    BY <1>2, <1>9 DEF CallbackRead, Trip
  <2> SUFFICES ASSUME NEW c \in Browsers, trip'[c].pc = "db"
               PROVE  Sound(trip'[c].snap, trip'[c].login, trip', accepted')
    BY DEF TripsSound
  <2>6. c # b => trip'[c] = trip[c]
    BY <1>2, <1>9 DEF CallbackRead
  <2> QED
    BY <1>3, <2>4, <2>5, <2>6
<1> QED
  BY <1>4, <1>6, <1>7, <1>8, <1>9
  DEF Next, vars, Start, StartRefused, WindowExpires, Expire, CompleteRead,
      CompleteStore, CompleteReject, Poll, PollIssue

LEMMA PostsSoundNext == ASSUME IInv, [Next]_vars PROVE PostsSound'
<1> USE DEF IInv
<1>1. Frame
  BY FrameHolds
<1>2. trip \in [Browsers -> Trip] /\ post \in [Posts -> Post]
  BY DEF Typed, TypeOK
<1>3. ASSUME NEW b \in Browsers, trip[b].pc = "page"
      PROVE  trip'[b] = trip[b] /\ trip[b].login \in Logins
  BY <1>1, <1>3 DEF Frame, Typed, Underway
<1>4. ASSUME NEW q \in Posts, post[q].pc = "body", post'[q] = post[q]
      PROVE  Sound(post'[q].snap, trip'[post'[q].page].login, trip', accepted')
  <2> DEFINE b == post[q].page
  <2>1. b \in Browsers /\ trip[b].pc = "page"
    BY <1>4 DEF Typed, Underway
  <2>2. trip'[b] = trip[b] /\ trip[b].login \in Logins
    BY <1>3, <2>1
  <2>3. post[q].snap \in Flow
    BY <1>2 DEF Post
  <2>4. Sound(post[q].snap, trip[b].login, trip, accepted)
    BY <1>4 DEF PostsSound
  <2>5. Sound(post[q].snap, trip[b].login, trip', accepted')
    BY <1>1, <2>2, <2>3, <2>4, SoundStays
  <2> QED
    BY <1>4, <2>2, <2>5
<1>5. CASE post' = post
  <2> SUFFICES ASSUME NEW q \in Posts, post'[q].pc = "body"
               PROVE  Sound(post'[q].snap, trip'[post'[q].page].login, trip', accepted')
    BY DEF PostsSound
  <2> QED
    BY <1>4, <1>5
<1>6. ASSUME NEW p \in Posts, post' = [post EXCEPT ![p] = IdlePost] PROVE PostsSound'
  <2> SUFFICES ASSUME NEW q \in Posts, post'[q].pc = "body"
               PROVE  Sound(post'[q].snap, trip'[post'[q].page].login, trip', accepted')
    BY DEF PostsSound
  <2>1. q # p /\ post'[q] = post[q]
    BY <1>2, <1>6 DEF IdlePost
  <2> QED
    BY <1>4, <2>1
<1>7. ASSUME NEW p \in Posts, NEW b \in Browsers, CompleteRead(p, b) PROVE PostsSound'
  <2> DEFINE l == trip[b].login
  <2>1. trip[b].pc = "page" /\ trip'[b] = trip[b] /\ l \in Logins
    BY <1>3, <1>7 DEF CompleteRead
  <2>2. Snapshot(l) \in Flow /\ Sound(Snapshot(l), l, trip, accepted)
    BY <2>1, SnapshotType, SnapshotSound DEF Typed
  <2>3. Sound(Snapshot(l), l, trip', accepted')
    BY <1>1, <2>1, <2>2, SoundStays
  <2>4. post'[p].page = b /\ post'[p].snap = Snapshot(l)
    BY <1>2, <1>7 DEF CompleteRead
  <2> SUFFICES ASSUME NEW q \in Posts, post'[q].pc = "body"
               PROVE  Sound(post'[q].snap, trip'[post'[q].page].login, trip', accepted')
    BY DEF PostsSound
  <2>5. q # p => post'[q] = post[q]
    BY <1>2, <1>7 DEF CompleteRead
  <2> QED
    BY <1>4, <2>1, <2>3, <2>4, <2>5
<1> QED
  BY <1>5, <1>6, <1>7
  DEF Next, vars, Start, StartRefused, WindowExpires, Expire, Open, CallbackRead,
      CallbackFail, CallbackStore, CompleteStore, CompleteReject, Poll, PollIssue

LEMMA CodeBeforeTokenNext == ASSUME IInv, [Next]_vars PROVE CodeBeforeToken'
<1> USE DEF IInv
<1>1. Frame
  BY FrameHolds
<1>2. /\ trip \in [Browsers -> Trip] /\ issues \in [Logins -> Nat]
      /\ accepted \in [Logins -> SUBSET Browsers]
  BY DEF Typed, TypeOK
<1>3. ASSUME NEW l \in Logins, issues'[l] > 0 PROVE accepted'[l] # {}
  <2>1. CASE issues[l] > 0
    BY <1>1, <2>1 DEF Frame, CodeBeforeToken
  <2>2. CASE issues'[l] = issues[l]
    BY <1>3, <2>1, <2>2
  <2>3. ASSUME NEW k \in Logins, Poll(k) PROVE accepted'[l] # {}
    <3>1. CASE k = l
      BY <1>1, <2>3, <3>1 DEF Poll, PollIssue, Ready, FlowsSound, Sound, Frame
    <3>2. CASE k # l
      BY <1>2, <2>2, <2>3, <3>2 DEF Poll, PollIssue
    <3> QED
      BY <3>1, <3>2
  <2> QED
    BY <2>2, <2>3
    DEF Next, vars, Start, StartRefused, WindowExpires, Expire, Open, CallbackRead,
        CallbackFail, CallbackStore, CompleteRead, CompleteStore, CompleteReject
<1>4. ASSUME NEW l \in Logins, NEW b \in accepted'[l]
      PROVE  trip'[b].pc = "page" /\ trip'[b].login = l
  <2>1. CASE b \in accepted[l]
    BY <1>1, <1>2, <2>1 DEF Frame, CodeBeforeToken
  <2>2. ASSUME NEW p \in Posts, NEW code \in Logins, CompleteStore(p, code),
               b \notin accepted[l]
        PROVE  trip'[b].pc = "page" /\ trip'[b].login = l
    <3>1. b = post[p].page /\ l = trip[b].login
      BY <1>2, <1>4, <2>2 DEF CompleteStore
    <3>2. b \in Browsers /\ trip[b].pc = "page"
      BY <2>2, <3>1 DEF CompleteStore, Typed, Underway
    <3> QED
      BY <1>1, <3>1, <3>2 DEF Frame
  <2>3. CASE accepted' = accepted
    BY <1>4, <2>1, <2>3
  <2> QED
    BY <2>1, <2>2, <2>3
    DEF Next, vars, Start, StartRefused, WindowExpires, Expire, Open, CallbackRead,
        CallbackFail, CallbackStore, CompleteRead, CompleteReject, Poll, PollIssue
<1> QED
  BY <1>3, <1>4 DEF CodeBeforeToken

LEMMA TokenProvenanceNext == ASSUME IInv, [Next]_vars PROVE TokenProvenance'
<1> USE DEF IInv
<1>1. Frame
  BY FrameHolds
<1>2. /\ trip \in [Browsers -> Trip] /\ flow \in [Logins -> Flow]
      /\ tokens \in [Logins -> SUBSET Token]
  BY DEF Typed, TypeOK
<1> DEFINE Origin(l, t, b, trips) ==
              /\ trips[b].pc = "page" /\ trips[b].login = l /\ trips[b].user = t.user
              /\ IF t.team = None THEN trips[b].teams = {} ELSE t.team \in trips[b].teams
<1>3. ASSUME NEW l \in Logins, NEW t, NEW b \in Browsers, Origin(l, t, b, trip)
      PROVE  Origin(l, t, b, trip')
  BY <1>1, <1>3 DEF Frame
<1> SUFFICES ASSUME NEW l \in Logins, NEW t \in tokens'[l]
             PROVE  t.cli = l /\ \E b \in Browsers : Origin(l, t, b, trip')
  BY DEF TokenProvenance
<1>4. CASE t \in tokens[l]
  <2>1. PICK b \in Browsers : Origin(l, t, b, trip)
    BY <1>4 DEF TokenProvenance
  <2> QED
    BY <1>3, <1>4, <2>1 DEF TokenProvenance
<1>5. ASSUME NEW k \in Logins, NEW secret \in Logins, NEW asked \in Teams \cup {None},
             NEW team \in Teams \cup {None}, PollIssue(k, secret, asked, team),
             t \notin tokens[l]
      PROVE  t.cli = l /\ \E b \in Browsers : Origin(l, t, b, trip')
  <2> DEFINE s == flow[k].session_data
             b == flow[k].browser_token
  <2>1. l = k /\ secret = k /\ t = [user |-> s.user, team |-> team, cli |-> secret]
    BY <1>2, <1>5 DEF PollIssue
  <2>2. Sound(flow[k], k, trip, accepted) /\ Ready(k)
    BY <1>5 DEF FlowsSound, PollIssue
  <2>3. b \in Browsers
    BY <1>2, <2>2 DEF Sound, Ready, Flow
  <2>4. /\ trip[b].pc = "page" /\ trip[b].login = k
        /\ s = [user |-> trip[b].user, teams |-> trip[b].teams]
    BY <2>2, <2>3, NoneAssumption DEF Sound
  <2>5. IF team = None THEN s.teams = {} ELSE team \in s.teams
    <3>1. TeamGranted(s.teams, asked, team) /\ s.teams \subseteq Teams
      BY <1>2, <1>5, <2>3, <2>4 DEF PollIssue, Trip
    <3> HIDE DEF s
    <3> QED
      BY <3>1, NoneAssumption DEF TeamGranted
  <2>6. Origin(l, t, b, trip)
    BY <2>1, <2>4, <2>5
  <2> QED
    BY <1>3, <2>1, <2>3, <2>6
<1>6. CASE tokens' = tokens
  BY <1>4, <1>6
<1> HIDE DEF Origin
<1> QED
  BY <1>4, <1>5, <1>6
  DEF Next, vars, Start, StartRefused, WindowExpires, Expire, Open, CallbackRead,
      CallbackFail, CallbackStore, CompleteRead, CompleteStore, CompleteReject, Poll

LEMMA InvInit == Init => IInv
<1> SUFFICES ASSUME Init PROVE IInv
  OBVIOUS
<1>1. Typed
  BY TypeInit
<1>2. FlowsSound
  BY DEF Init, FlowsSound, Sound, FreshFlow
<1>3. TripsSound /\ PostsSound
  BY DEF Init, TripsSound, PostsSound, IdlePost
<1>4. CodeBeforeToken /\ TokenProvenance
  BY DEF Init, CodeBeforeToken, TokenProvenance
<1> QED
  BY <1>1, <1>2, <1>3, <1>4 DEF IInv

LEMMA InvNext == IInv /\ [Next]_vars => IInv'
<1> SUFFICES ASSUME IInv, [Next]_vars PROVE IInv'
  OBVIOUS
<1>1. Typed'
  BY TypeNext DEF IInv
<1> QED
  BY <1>1, FlowsSoundNext, TripsSoundNext, PostsSoundNext, CodeBeforeTokenNext,
     TokenProvenanceNext DEF IInv

LEMMA Inductive == Spec => []IInv
BY InvInit, InvNext, PTL DEF Spec

\* No token is issued for a login unless its code was typed into one of its
\* verification pages.
THEOREM CodeBeforeTokenHolds == Spec => []CodeBeforeToken
<1>1. IInv => CodeBeforeToken
  BY DEF IInv
<1> QED
  BY <1>1, Inductive, PTL

\* Every token names a user the provider authenticated for that very login and
\* one of the user's teams.
THEOREM TokenProvenanceHolds == Spec => []TokenProvenance
<1>1. IInv => TokenProvenance
  BY DEF IInv
<1> QED
  BY <1>1, Inductive, PTL

\* The session and the browser token of every copy of a dict come from the
\* same callback, whether the cache shares the dict or copies it.
THEOREM PageOwnsSessionHolds == Spec => []PageOwnsSession
<1>1. IInv => PageOwnsSession
  BY DEF IInv, PageOwnsSession, SessionOfPage, FlowsSound, TripsSound, PostsSound, Sound
<1> QED
  BY <1>1, Inductive, PTL

(***************************************************************************)
(* What a step may not do.                                                 *)
(***************************************************************************)
LEMMA AcceptancePins ==
    ASSUME IInv, [Next]_vars, NEW l \in Logins, NEW b \in accepted'[l] \ accepted[l]
    PROVE  /\ flow'[l].user_code_verified
           /\ flow'[l].browser_token = b
           /\ flow'[l].session_data.user = trip[b].user
<1>1. /\ flow \in [Logins -> Flow] /\ accepted \in [Logins -> SUBSET Browsers]
      /\ post \in [Posts -> Post]
  BY DEF IInv, Typed, TypeOK
<1>2. ASSUME NEW p \in Posts, NEW code \in Logins, CompleteStore(p, code)
      PROVE  /\ flow'[l].user_code_verified
             /\ flow'[l].browser_token = b
             /\ flow'[l].session_data.user = trip[b].user
  <2> DEFINE h == Held(l, post[p].snap)
             f == [h EXCEPT !.user_code_verified = TRUE]
  <2>1. b = post[p].page /\ l = trip[b].login
    BY <1>1, <1>2 DEF CompleteStore
  <2>2. post[p].pc = "body" /\ post[p].snap \in Flow /\ h.browser_token = b
        /\ b \in Browsers
    BY <1>1, <1>2, <2>1 DEF CompleteStore, CodeAccepted, Post, IInv, Typed, Underway
  <2>3. h \in Flow /\ Sound(h, l, trip, accepted)
    BY <2>1, <2>2, HeldType, HeldSound DEF IInv, PostsSound, Typed
  <2>4. flow' = [flow EXCEPT ![l] = f]
    BY <1>2, <2>1 DEF CompleteStore, SetFlow
  <2> HIDE DEF h
  <2>5. flow'[l] = f /\ f.user_code_verified /\ f.browser_token = b
        /\ f.session_data = h.session_data
    BY <1>1, <2>2, <2>3, <2>4 DEF Flow
  <2>6. h.session_data.user = trip[b].user
    BY <2>2, <2>3, NoneAssumption DEF Sound
  <2> QED
    BY <2>5, <2>6
<1>3. CASE accepted' = accepted
  BY <1>3
<1> QED
  BY <1>2, <1>3
  DEF Next, vars, Start, StartRefused, WindowExpires, Expire, Open, CallbackRead,
      CallbackFail, CallbackStore, CompleteRead, CompleteReject, Poll, PollIssue

\* A code typed into a page verifies the session of that page, even when other
\* callbacks of the login ran between the two halves of the completion.
THEOREM AcceptancePinsSessionHolds == Spec => AcceptancePinsSession
<1>1. IInv /\ [Next]_vars =>
        [\A l \in Logins : \A b \in accepted'[l] \ accepted[l] :
           /\ flow'[l].user_code_verified
           /\ flow'[l].browser_token = b
           /\ flow'[l].session_data.user = trip[b].user]_vars
  BY AcceptancePins
<1> QED
  BY <1>1, Inductive, PTL DEF Spec, AcceptancePinsSession

LEMMA VerificationStays ==
    ASSUME Aliased = TRUE, Typed, [Next]_vars, NEW l \in Logins,
           flow[l].user_code_verified, l \in started
    PROVE  flow'[l].user_code_verified
<1>1. flow \in [Logins -> Flow]
  BY DEF Typed, TypeOK
<1>2. ASSUME NEW k \in Logins, NEW f, flow' = [flow EXCEPT ![k] = f],
             k = l => f.user_code_verified
      PROVE  flow'[l].user_code_verified
  BY <1>1, <1>2
<1>3. ASSUME NEW ip \in Ips, NEW k \in Logins, Start(ip, k)
      PROVE  flow'[l].user_code_verified
  BY <1>1, <1>3 DEF Start, SetFlow
<1>4. ASSUME NEW b \in Browsers, NEW teams \in SUBSET Teams, CallbackStore(b, teams)
      PROVE  flow'[l].user_code_verified
  <2> DEFINE k == trip[b].login
             f == [flow[k] EXCEPT
                     !.session_data = [user |-> trip[b].user, teams |-> teams],
                     !.sso_complete = TRUE,
                     !.browser_token = b]
  <2>1. k \in Logins
    BY <1>4 DEF CallbackStore, Typed, Underway
  <2>2. flow' = [flow EXCEPT ![k] = f]
    BY <1>4 DEF CallbackStore, SetFlow, Held
  <2>3. f.user_code_verified = flow[k].user_code_verified
    BY <1>1, <2>1 DEF Flow
  <2> HIDE DEF f, k
  <2> QED
    BY <1>2, <2>1, <2>2, <2>3
<1>5. ASSUME NEW p \in Posts, NEW code \in Logins, CompleteStore(p, code)
      PROVE  flow'[l].user_code_verified
  <2> DEFINE k == trip[post[p].page].login
             f == [flow[k] EXCEPT !.user_code_verified = TRUE]
  <2>1. k \in Logins
    BY <1>5 DEF CompleteStore, Typed, Underway
  <2>2. flow' = [flow EXCEPT ![k] = f]
    BY <1>5 DEF CompleteStore, SetFlow, Held
  <2>3. f.user_code_verified
    BY <1>1, <2>1 DEF Flow
  <2> HIDE DEF f, k
  <2> QED
    BY <1>2, <2>1, <2>2, <2>3
<1> QED
  BY <1>3, <1>4, <1>5
  DEF Next, vars, StartRefused, WindowExpires, Expire, Open, CallbackRead,
      CallbackFail, CompleteRead, CompleteReject, Poll, PollIssue

(***************************************************************************)
(* A login id that is in use has been drawn, so Start never draws it again. *)
(***************************************************************************)
Drawn ==
    /\ cached \subseteq started
    /\ \A b \in Browsers : trip[b].pc # "home" => trip[b].login \in started
    /\ \A l \in Logins : issues[l] > 0 \/ flow[l].user_code_verified => l \in started

LEMMA DrawnInit == Init => Drawn
BY DEF Init, Drawn, FreshFlow

LEMMA DrawnNext == ASSUME Typed, Drawn, [Next]_vars PROVE Drawn'
<1>1. /\ flow \in [Logins -> Flow] /\ trip \in [Browsers -> Trip]
      /\ issues \in [Logins -> Nat] /\ started \subseteq started'
  BY DEF Typed, TypeOK, Next, vars, Start, StartRefused, WindowExpires, Expire, Open,
     CallbackRead, CallbackFail, CallbackStore, CompleteRead, CompleteStore,
     CompleteReject, Poll, PollIssue
<1>2. cached' \subseteq started'
  <2>1. ASSUME NEW b \in Browsers, NEW teams \in SUBSET Teams, CallbackStore(b, teams)
        PROVE  cached' \subseteq started'
    BY <2>1 DEF Drawn, CallbackStore, SetFlow
  <2>2. ASSUME NEW p \in Posts, NEW code \in Logins, CompleteStore(p, code)
        PROVE  cached' \subseteq started'
    <3>1. trip[post[p].page].login \in started
      BY <2>2 DEF CompleteStore, Drawn, Typed, Underway
    <3> QED
      BY <2>2, <3>1 DEF Drawn, CompleteStore, SetFlow
  <2>3. ASSUME NEW ip \in Ips, NEW l \in Logins, Start(ip, l)
        PROVE  cached' \subseteq started'
    BY <2>3 DEF Drawn, Start, SetFlow
  <2>4. CASE cached' \subseteq cached
    BY <1>1, <2>4 DEF Drawn
  <2>5. ASSUME NEW l \in Logins, Poll(l) PROVE cached' \subseteq started'
    BY <2>4, <2>5 DEF Poll, PollIssue
  <2> QED
    BY <2>1, <2>2, <2>3, <2>4, <2>5
    DEF Next, vars, StartRefused, WindowExpires, Expire, Open, CallbackRead,
        CallbackFail, CompleteRead, CompleteReject
<1>3. ASSUME NEW b \in Browsers, trip'[b].pc # "home" PROVE trip'[b].login \in started'
  <2>1. CASE trip[b].pc # "home"
    BY <1>1, <2>1, FrameHolds DEF Drawn, Frame
  <2>2. ASSUME NEW c \in Browsers, NEW l \in Logins, Open(c, l)
        PROVE  trip'[b].login \in started'
    BY <1>1, <1>3, <2>1, <2>2 DEF Open, Drawn, Trip
  <2>3. CASE \E c \in Browsers : trip[c].pc # "home" /\
                \E r : trip' = [trip EXCEPT ![c] = r]
    BY <1>1, <1>3, <2>1, <2>3
  <2>4. CASE trip' = trip
    BY <1>3, <2>1, <2>4
  <2>5. ASSUME NEW c \in Browsers, NEW u \in Users, CallbackRead(c, u)
        PROVE  trip'[b].login \in started'
    BY <2>3, <2>5 DEF CallbackRead
  <2>6. ASSUME NEW c \in Browsers, CallbackFail(c) PROVE trip'[b].login \in started'
    BY <2>3, <2>6 DEF CallbackFail
  <2>7. ASSUME NEW c \in Browsers, NEW teams \in SUBSET Teams, CallbackStore(c, teams)
        PROVE  trip'[b].login \in started'
    BY <2>3, <2>7 DEF CallbackStore
  <2> QED
    BY <2>2, <2>4, <2>5, <2>6, <2>7
    DEF Next, vars, Start, StartRefused, WindowExpires, Expire, CompleteRead,
        CompleteStore, CompleteReject, Poll, PollIssue
<1>4. ASSUME NEW l \in Logins, issues'[l] > 0 \/ flow'[l].user_code_verified
      PROVE  l \in started'
  <2>1. CASE l \in started
    BY <1>1, <2>1
  <2>2. ASSUME NEW ip \in Ips, NEW k \in Logins, Start(ip, k) PROVE l \in started'
    BY <1>1, <1>4, <2>2 DEF Start, SetFlow, Drawn
  <2>3. ASSUME NEW b \in Browsers, NEW teams \in SUBSET Teams, CallbackStore(b, teams)
        PROVE  l \in started'
    <3>1. trip[b].login \in started
      BY <2>3 DEF CallbackStore, Drawn
    <3>2. CASE l # trip[b].login
      BY <1>1, <1>4, <2>1, <2>3, <3>2 DEF CallbackStore, SetFlow, Drawn
    <3> QED
      BY <2>1, <3>1, <3>2
  <2>4. ASSUME NEW p \in Posts, NEW code \in Logins, CompleteStore(p, code)
        PROVE  l \in started'
    <3>1. trip[post[p].page].login \in started
      BY <2>4 DEF CompleteStore, Drawn, Typed, Underway
    <3>2. CASE l # trip[post[p].page].login
      BY <1>1, <1>4, <2>1, <2>4, <3>2 DEF CompleteStore, SetFlow, Drawn
    <3> QED
      BY <2>1, <3>1, <3>2
  <2>5. ASSUME NEW k \in Logins, Poll(k) PROVE l \in started'
    BY <1>1, <1>4, <2>1, <2>5 DEF Poll, PollIssue, Ready, Drawn
  <2>6. CASE issues' = issues /\ flow' = flow
    BY <1>4, <2>1, <2>6 DEF Drawn
  <2> QED
    BY <2>2, <2>3, <2>4, <2>5, <2>6
    DEF Next, vars, StartRefused, WindowExpires, Expire, Open, CallbackRead,
        CallbackFail, CompleteRead, CompleteReject
<1> QED
  BY <1>2, <1>3, <1>4 DEF Drawn

LEMMA DrawnHolds == Spec => [](Typed /\ Drawn)
<1>1. Init => Typed /\ Drawn
  BY TypeInit, DrawnInit
<1>2. Typed /\ Drawn /\ [Next]_vars => (Typed /\ Drawn)'
  BY TypeNext, DrawnNext
<1> QED
  BY <1>1, <1>2, PTL DEF Spec

\* In one process, where the cache shares the dict, no handler that started
\* before an acceptance undoes it.
THEOREM NoLostVerificationHolds ==
    ASSUME Aliased = TRUE PROVE Spec => NoLostVerification
<1>1. Typed /\ Drawn /\ [Next]_vars =>
        [\A l \in Logins : flow[l].user_code_verified
                             => flow'[l].user_code_verified]_vars
  <2> SUFFICES ASSUME Typed, Drawn, [Next]_vars, NEW l \in Logins,
                      flow[l].user_code_verified
               PROVE  flow'[l].user_code_verified
    OBVIOUS
  <2>1. l \in started
    BY DEF Drawn
  <2> QED
    BY <2>1, VerificationStays
<1> QED
  BY <1>1, DrawnHolds, PTL DEF Spec, NoLostVerification

LEMMA SpentStays ==
    ASSUME Typed, Drawn, [Next]_vars, NEW l \in Logins, Spent(l) PROVE Spent(l)'
<1>1. /\ trip \in [Browsers -> Trip] /\ post \in [Posts -> Post]
      /\ issues \in [Logins -> Nat] /\ l \in started
  BY DEF Typed, TypeOK, Spent, Drawn
<1>2. issues'[l] > 0
  <2>1. ASSUME NEW k \in Logins, Poll(k) PROVE issues'[l] > 0
    BY <1>1, <2>1 DEF Spent, Poll, PollIssue
  <2>2. CASE issues' = issues
    BY <2>2 DEF Spent
  <2> QED
    BY <2>1, <2>2
    DEF Next, vars, Start, StartRefused, WindowExpires, Expire, Open, CallbackRead,
        CallbackFail, CallbackStore, CompleteRead, CompleteStore, CompleteReject
<1>3. l \notin cached'
  <2>1. ASSUME NEW b \in Browsers, NEW teams \in SUBSET Teams, CallbackStore(b, teams)
        PROVE  l \notin cached'
    BY <2>1 DEF Spent, CallbackStore, SetFlow
  <2>2. ASSUME NEW p \in Posts, NEW code \in Logins, CompleteStore(p, code)
        PROVE  l \notin cached'
    BY <2>2 DEF Spent, CompleteStore, SetFlow
  <2>3. ASSUME NEW ip \in Ips, NEW k \in Logins, Start(ip, k) PROVE l \notin cached'
    BY <1>1, <2>3 DEF Spent, Start, SetFlow
  <2>4. ASSUME NEW k \in Logins, Poll(k) PROVE l \notin cached'
    BY <2>4 DEF Spent, Poll, PollIssue
  <2>5. CASE cached' \subseteq cached
    BY <2>5 DEF Spent
  <2> QED
    BY <2>1, <2>2, <2>3, <2>4, <2>5
    DEF Next, vars, StartRefused, WindowExpires, Expire, Open, CallbackRead,
        CallbackFail, CompleteRead, CompleteReject
<1>4. ASSUME NEW b \in Browsers, trip'[b].login = l PROVE trip'[b].pc # "db"
  <2>1. CASE trip' = trip
    BY <1>4, <2>1 DEF Spent
  <2>2. ASSUME NEW c \in Browsers, NEW r, trip' = [trip EXCEPT ![c] = r],
               r.pc # "db" \/ r.login # l
        PROVE  trip'[b].pc # "db"
    BY <1>1, <1>4, <2>2 DEF Spent
  <2>3. ASSUME NEW c \in Browsers, NEW k \in Logins, Open(c, k) PROVE trip'[b].pc # "db"
    <3> DEFINE r == [trip[c] EXCEPT !.pc = "idp", !.login = k]
    <3>1. trip' = [trip EXCEPT ![c] = r] /\ r.pc # "db"
      BY <1>1, <2>3 DEF Open, Trip
    <3> QED
      BY <2>2, <3>1
  <2>4. ASSUME NEW c \in Browsers, NEW u \in Users, CallbackRead(c, u)
        PROVE  trip'[b].pc # "db"
    <3> DEFINE r == [trip[c] EXCEPT !.pc = "db", !.user = u,
                                    !.snap = Snapshot(trip[c].login)]
    <3>1. trip' = [trip EXCEPT ![c] = r] /\ r.login = trip[c].login
          /\ trip[c].login \in cached
      BY <1>1, <2>4 DEF CallbackRead, Trip
    <3> QED
      BY <2>2, <3>1 DEF Spent
  <2>5. ASSUME NEW c \in Browsers, CallbackFail(c) PROVE trip'[b].pc # "db"
    <3> DEFINE r == [trip[c] EXCEPT !.pc = "failed", !.snap = FreshFlow]
    <3>1. trip' = [trip EXCEPT ![c] = r] /\ r.pc # "db"
      BY <1>1, <2>5 DEF CallbackFail, Trip
    <3> QED
      BY <2>2, <3>1
  <2>6. ASSUME NEW c \in Browsers, NEW teams \in SUBSET Teams, CallbackStore(c, teams)
        PROVE  trip'[b].pc # "db"
    <3> DEFINE r == [trip[c] EXCEPT !.pc = "page", !.teams = teams, !.snap = FreshFlow]
    <3>1. trip' = [trip EXCEPT ![c] = r] /\ r.pc # "db"
      BY <1>1, <2>6 DEF CallbackStore, Trip
    <3> QED
      BY <2>2, <3>1
  <2> QED
    BY <2>1, <2>3, <2>4, <2>5, <2>6
    DEF Next, vars, Start, StartRefused, WindowExpires, Expire, CompleteRead,
        CompleteStore, CompleteReject, Poll, PollIssue
<1>5. ASSUME NEW p \in Posts, post'[p].pc = "body"
      PROVE  trip'[post'[p].page].login # l
  <2>1. CASE post[p].pc = "body" /\ post'[p] = post[p]
    BY <2>1, FrameHolds DEF Frame, Typed, Underway, Spent
  <2>2. ASSUME NEW q \in Posts, NEW b \in Browsers, CompleteRead(q, b)
        PROVE  trip'[post'[p].page].login # l
    BY <1>1, <1>5, <2>1, <2>2 DEF CompleteRead, Spent
  <2>3. CASE \E q \in Posts : post' = [post EXCEPT ![q] = IdlePost]
    BY <1>1, <1>5, <2>1, <2>3 DEF IdlePost
  <2>4. CASE post' = post
    BY <1>5, <2>1, <2>4
  <2> QED
    BY <2>2, <2>3, <2>4
    DEF Next, vars, Start, StartRefused, WindowExpires, Expire, Open, CallbackRead,
        CallbackFail, CallbackStore, CompleteStore, CompleteReject, Poll, PollIssue
<1> QED
  BY <1>2, <1>3, <1>4, <1>5 DEF Spent

\* No request that arrives after a login was spent brings it back.
THEOREM SpentIsFinalHolds == Spec => SpentIsFinal
<1>1. Typed /\ Drawn /\ [Next]_vars => [\A l \in Logins : Spent(l) => Spent(l)']_vars
  BY SpentStays
<1> QED
  BY <1>1, DrawnHolds, PTL DEF Spec, SpentIsFinal

\* The rate limit holds for any number of clients and logins.
THEOREM RateLimitHoldsAlways == Spec => []RateLimitHolds
<1> DEFINE Counted == \A ip \in Ips : windowStarts[ip] <= attempts[ip]
<1>1. Init => Counted /\ RateLimitHolds
  BY BoundsAssumption DEF Init, RateLimitHolds
<1>2. TypeOK /\ Counted /\ RateLimitHolds /\ [Next]_vars => (Counted /\ RateLimitHolds)'
  <2> SUFFICES ASSUME TypeOK, Counted, RateLimitHolds, [Next]_vars
               PROVE  (Counted /\ RateLimitHolds)'
    OBVIOUS
  <2>1. attempts \in [Ips -> Nat] /\ windowStarts \in [Ips -> Nat]
    BY DEF TypeOK
  <2>2. ASSUME NEW ip \in Ips, NEW l \in Logins, Start(ip, l)
        PROVE  (Counted /\ RateLimitHolds)'
    BY <2>1, <2>2, BoundsAssumption DEF Start, RateLimited, RateLimitHolds
  <2>3. ASSUME NEW ip \in Ips, StartRefused(ip) PROVE (Counted /\ RateLimitHolds)'
    BY <2>1, <2>3 DEF StartRefused, RateLimitHolds
  <2>4. ASSUME NEW ip \in Ips, WindowExpires(ip) PROVE (Counted /\ RateLimitHolds)'
    BY <2>1, <2>4, BoundsAssumption DEF WindowExpires, RateLimitHolds
  <2>5. CASE UNCHANGED <<attempts, windowStarts>>
    BY <2>5 DEF RateLimitHolds
  <2> HIDE DEF Counted
  <2> QED
    BY <2>2, <2>3, <2>4, <2>5
    DEF Next, vars, Expire, Open, CallbackRead, CallbackFail, CallbackStore,
        CompleteRead, CompleteStore, CompleteReject, Poll, PollIssue
<1> HIDE DEF Counted
<1> QED
  BY <1>1, <1>2, TypeCorrect, PTL DEF Spec
=============================================================================
