---------------------------- MODULE AdmissionProofs ----------------------------
(***************************************************************************)
(* Proofs about Admission, for any number of links, requests, seats and    *)
(* failed attempts.  No link admits more candidates than it has seats: the *)
(* count in the row is tied to the set of requests it seated, a row no one *)
(* minted has seated nobody, and a request takes a seat once, before it    *)
(* opens its session.  A seat taken leads to a session, as its persona is  *)
(* there to be found; and while a link is locked nobody new gets past the  *)
(* check of it.                                                            *)
(***************************************************************************)
EXTENDS Admission, FiniteSetTheorems, TLAPS

USE DEF HasUser, AddUser, AddArea, AddPersona, AddSession, DeleteInvite

Personas == [area : Areas, version : Versions] \cup {NoPersona}
InviteRows == [state : {"none", "active", "retired"}, persona : Personas,
               expires : Int, max : Int, used : Int]
Locals == [pc : {"new", "lookup", "mint", "seat", "persona", "add", "done", "refused", "lost"},
           slug : Slugs \cup {NoSlug}, right : BOOLEAN, since : Int, persona : Personas]
SessionRows == [invite : Slugs \cup {NoSlug}, persona : Personas]

Types ==
    /\ now \in Nat
    /\ personas \subseteq [area : Areas, version : Versions]
    /\ invites \in [Slugs -> InviteRows]
    /\ request \in [Requests -> Locals]
    /\ sessions \in [Requests -> SessionRows]
    /\ seat \in [Requests -> Slugs \cup {NoSlug}]

\* Whoever has not asked for a seat holds none; whoever has one is on the way to
\* the session with it, and has not opened it before.
OneSeatEach ==
    \A c \in Requests :
        /\ request[c].pc \in {"new", "lookup", "mint", "seat"} => seat[c] = NoSlug
        /\ request[c].pc \in {"lookup", "seat"} => request[c].slug \in Slugs
        /\ request[c].pc \in {"persona", "add"} => seat[c] = request[c].slug
        /\ request[c].pc \in {"new", "lookup", "mint", "seat", "persona", "add"} =>
              sessions[c] = NoSession

\* A request mints a row of its own, which is not there before.
MintedOnce ==
    \A c \in Requests : request[c].pc \in {"new", "mint"} => invites[c].state = "none"

\* A row that is not there has seated nobody.
NoneSeated ==
    \A s \in Slugs : invites[s].state = "none" => SeatsOf(s) = {}

MintsItsOwn == \A c \in Requests : request[c].pc = "mint" => request[c].slug = c

IInv == Types /\ OneSeatEach /\ MintedOnce /\ NoneSeated /\ MintsItsOwn /\ SeatsBounded

-------------------------------------------------------------------------------

LEMMA SeatsFinite == \A s \in Slugs : IsFiniteSet(SeatsOf(s)) /\ Cardinality(SeatsOf(s)) \in Nat
BY AdmissionAssumption, FS_Subset, FS_CardinalityType DEF SeatsOf

LEMMA IdleLocals ==
    ASSUME NEW how \in {"new", "done", "refused", "lost"}
    PROVE  Idle(how) \in Locals /\ Idle(how).pc = how
<1>1. NoPersona \in Personas /\ FALSE \in BOOLEAN /\ 0 \in Int
    BY DEF Personas
<1>2. NoSlug \in Slugs \cup {NoSlug}
    OBVIOUS
<1> QED
    BY <1>1, <1>2 DEF Locals, Idle

LEMMA InitInv == Init => IInv
<1> SUFFICES ASSUME Init PROVE IInv
    OBVIOUS
<1>1. Types
    BY IdleLocals DEF Init, Types, InviteRows, Locals, SessionRows, Personas, NoInvite, NoPersona, NoSession
<1>2. \A s \in Slugs : SeatsOf(s) = {}
    BY AdmissionAssumption DEF Init, SeatsOf, Slugs
<1>3. OneSeatEach /\ MintedOnce /\ NoneSeated /\ MintsItsOwn
    BY <1>2 DEF Init, OneSeatEach, MintedOnce, NoneSeated, MintsItsOwn, Idle, NoInvite, Slugs
<1>4. SeatsBounded
    BY <1>2, FS_EmptySet DEF Init, SeatsBounded, NoInvite
<1> QED
    BY <1>1, <1>3, <1>4 DEF IInv

\* A step that touches neither the rows nor the seats, and moves requests only
\* forward, keeps the invariant.
LEMMA RequestMoves ==
    ASSUME IInv, Types', UNCHANGED <<invites, seat, sessions>>,
           NEW c \in Requests, NEW r \in Locals,
           request' = [request EXCEPT ![c] = r],
           r.pc \in {"new", "mint"} => request[c].pc \in {"new", "mint"},
           r.pc \in {"lookup", "seat"} => /\ request[c].pc \in {"new", "lookup", "mint", "seat"}
                                          /\ r.slug \in Slugs,
           r.pc \in {"persona", "add"} => /\ request[c].pc \in {"persona", "add"}
                                          /\ r.slug = request[c].slug,
           r.pc = "mint" => r.slug = c
    PROVE  IInv'
<1>1. \A d \in Requests : request'[d] = IF d = c THEN r ELSE request[d]
    BY DEF IInv, Types
<1>2. OneSeatEach'
    BY <1>1 DEF IInv, OneSeatEach
<1>3. MintedOnce' /\ MintsItsOwn'
    BY <1>1 DEF IInv, MintedOnce, MintsItsOwn
<1>4. NoneSeated' /\ SeatsBounded'
    BY DEF IInv, NoneSeated, SeatsBounded, SeatsOf
<1> QED
    BY <1>2, <1>3, <1>4 DEF IInv

\* A step that leaves the candidates' state alone keeps the invariant.
LEMMA OthersMove ==
    ASSUME IInv, Types', UNCHANGED <<invites, seat, sessions, request>>
    PROVE  IInv'
BY DEF IInv, OneSeatEach, MintedOnce, MintsItsOwn, NoneSeated, SeatsBounded, SeatsOf

LEMMA AdministerInv == ASSUME IInv, Administer PROVE IInv'
<1> USE DEF IInv
<1>1. ASSUME NEW e \in Emails, Register(e) \/ Login(e) \/ SeedAdmin(e) PROVE IInv'
    BY <1>1, OthersMove DEF Register, Login, SeedAdmin, Types, clockVars, lockVars
<1>2. ASSUME NEW a \in Areas, CreateArea(a) \/ SeedArea(a) \/ SeedPersona(a) PROVE IInv'
    <2>1. CASE CreateArea(a) \/ SeedArea(a)
        BY <2>1, OthersMove DEF CreateArea, SeedArea, Types, clockVars, lockVars
    <2>2. CASE SeedPersona(a)
        <3>1. [area |-> a, version |-> 1] \in [area : Areas, version : Versions]
            BY AdmissionAssumption
        <3>2. Types'
            BY <2>2, <3>1 DEF SeedPersona, Types, clockVars
        <3> QED
            BY <2>2, <3>2, OthersMove DEF SeedPersona
    <2> QED
        BY <1>2, <2>1, <2>2
<1>3. ASSUME NEW p \in [area : Areas, version : Versions], PublishPersona(p) PROVE IInv'
    BY <1>3, OthersMove DEF PublishPersona, Types, clockVars, lockVars
<1>4. ASSUME NEW l \in Links, RetireInvite(l) PROVE IInv'
    <2> USE <1>4 DEF RetireInvite
    <2>1. l \in Slugs /\ l \notin Requests
        BY AdmissionAssumption DEF Slugs
    <2>2. UNCHANGED <<now, personas, request, sessions, seat>>
        BY DEF clockVars, adminVars
    <2>3. Types'
        BY <2>1, <2>2 DEF Types, InviteRows
    <2>4. \A s \in Slugs : /\ invites'[s].used = invites[s].used
                           /\ invites'[s].max = invites[s].max
                           /\ invites'[s].state = "none" => invites[s].state = "none"
                           /\ s # l => invites'[s] = invites[s]
        BY <2>1 DEF Types, InviteRows
    <2>5. OneSeatEach' /\ MintsItsOwn'
        BY <2>2 DEF OneSeatEach, MintsItsOwn
    <2>6. MintedOnce'
        BY <2>1, <2>2, <2>4 DEF MintedOnce, Slugs
    <2>7. NoneSeated' /\ SeatsBounded'
        BY <2>2, <2>4 DEF NoneSeated, SeatsBounded, SeatsOf
    <2> QED
        BY <2>3, <2>5, <2>6, <2>7
<1>5. ASSUME NEW l \in Links, NEW p \in personas, NEW max \in SeatCounts, NEW hours \in LinkTtls,
             CreateInvite(l, p, max, hours)
      PROVE  IInv'
    <2> USE <1>5 DEF CreateInvite, Mint
    <2>1. l \in Slugs /\ l \notin Requests
        BY AdmissionAssumption DEF Slugs
    <2>2. UNCHANGED <<now, personas, request, sessions, seat>>
        BY DEF clockVars, adminVars
    <2>3. p \in Personas /\ max \in Int /\ now + Ttl(hours) \in Int
        BY AdmissionAssumption DEF Types, Personas, Ttl
    <2>4. Types'
        BY <2>1, <2>2, <2>3 DEF Types, InviteRows
    <2>5. /\ invites'[l].used = 0 /\ invites'[l].state = "active"
          /\ \A s \in Slugs : s # l => invites'[s] = invites[s]
        BY <2>1 DEF Types
    <2>6. SeatsOf(l) = {}
        BY <2>1 DEF NoneSeated
    <2>7. OneSeatEach' /\ MintsItsOwn'
        BY <2>2 DEF OneSeatEach, MintsItsOwn
    <2>8. MintedOnce'
        BY <2>1, <2>2, <2>5 DEF MintedOnce, Slugs
    <2>9. NoneSeated' /\ SeatsBounded'
        BY <2>2, <2>5, <2>6, FS_EmptySet DEF NoneSeated, SeatsBounded, SeatsOf
    <2> QED
        BY <2>4, <2>7, <2>8, <2>9
<1> QED
    BY <1>1, <1>2, <1>3, <1>4, <1>5 DEF Administer

LEMMA MintInv == ASSUME IInv, NEW c \in Requests, MintForJob(c) PROVE IInv'
<1> USE DEF IInv, MintForJob, Mint
<1>1. c \in Slugs /\ request[c].slug = c
    BY DEF Slugs, MintsItsOwn
<1>2. UNCHANGED <<now, personas, sessions, seat>>
    BY DEF clockVars, adminVars
<1>3. request[c].persona \in Personas /\ now + JobTtl \in Int /\ now \in Int
    BY AdmissionAssumption DEF Types, Locals
<1>4. Types'
    <2>1. invites' \in [Slugs -> InviteRows]
        BY <1>1, <1>3 DEF Types, InviteRows
    <2>2. request' = [request EXCEPT ![c] = [request[c] EXCEPT !.pc = "seat", !.since = now]]
        BY DEF Types, Locals
    <2>3. [request[c] EXCEPT !.pc = "seat", !.since = now] \in Locals
        <3>1. request[c] \in Locals
            BY DEF Types
        <3> QED
            BY <1>3, <3>1 DEF Locals
    <2>4. request' \in [Requests -> Locals]
        BY <2>2, <2>3 DEF Types
    <2> QED
        BY <1>2, <2>1, <2>4 DEF Types
<1>5. /\ invites'[c].used = 0 /\ invites'[c].state = "active"
      /\ \A s \in Slugs : s # c => invites'[s] = invites[s]
    BY <1>1 DEF Types
<1>6. /\ request'[c].pc = "seat" /\ request'[c].slug = c
      /\ \A d \in Requests : d # c => request'[d] = request[d]
    BY <1>1 DEF Types, Locals
<1>7. SeatsOf(c) = {}
    BY <1>1 DEF NoneSeated, MintedOnce
<1>8. OneSeatEach' /\ MintsItsOwn'
    BY <1>1, <1>2, <1>6 DEF OneSeatEach, MintsItsOwn
<1>9. MintedOnce'
    BY <1>5, <1>6 DEF MintedOnce, Slugs
<1>10. NoneSeated' /\ SeatsBounded'
    BY <1>2, <1>5, <1>7, FS_EmptySet DEF NoneSeated, SeatsBounded, SeatsOf
<1> QED
    BY <1>4, <1>8, <1>9, <1>10

\* The one step that counts: the row it counts in is open, and the request has
\* no seat yet.
LEMMA SeatTaken ==
    ASSUME IInv, NEW c \in Requests, request[c].pc = "seat",
           NEW s \in Slugs, s = request[c].slug,
           Claimable(invites[s], request[c].since),
           invites' = [invites EXCEPT ![s].used = @ + 1],
           seat' = [seat EXCEPT ![c] = s],
           request' = [request EXCEPT
               ![c].pc = IF s \in Links THEN "persona" ELSE "add",
               ![c].persona = invites[s].persona],
           UNCHANGED <<now, personas, sessions>>
    PROVE  IInv'
<1> USE DEF IInv
<1>1. Types'
    <2> DEFINE r == [request[c] EXCEPT !.pc = IF s \in Links THEN "persona" ELSE "add",
                                       !.persona = invites[s].persona]
    <2>1. invites' \in [Slugs -> InviteRows]
        BY DEF Types, InviteRows
    <2>2. invites[s].persona \in Personas
        BY DEF Types, InviteRows
    <2>3. r \in Locals
        BY <2>2 DEF Types, Locals
    <2>4. request' = [request EXCEPT ![c] = r]
        BY DEF Types, Locals
    <2>5. request' \in [Requests -> Locals]
        BY <2>3, <2>4 DEF Types
    <2>6. seat' \in [Requests -> Slugs \cup {NoSlug}]
        BY DEF Types
    <2> QED
        BY <2>1, <2>5, <2>6 DEF Types
<1>2. /\ invites'[s].used = invites[s].used + 1
      /\ \A t \in Slugs : /\ invites'[t].state = invites[t].state
                          /\ invites'[t].max = invites[t].max
                          /\ t # s => invites'[t] = invites[t]
    BY DEF Types, InviteRows
<1>3. /\ request'[c].pc \in {"persona", "add"} /\ request'[c].slug = s
      /\ \A d \in Requests : d # c => request'[d] = request[d]
    BY DEF Types, Locals
<1>4. seat[c] = NoSlug /\ s # NoSlug
    BY AdmissionAssumption DEF OneSeatEach, Slugs
<1>5. /\ SeatsOf(s)' = SeatsOf(s) \cup {c} /\ c \notin SeatsOf(s)
      /\ \A t \in Slugs : t # s => SeatsOf(t)' = SeatsOf(t)
    <2>1. \A d \in Requests : seat'[d] = IF d = c THEN s ELSE seat[d]
        BY DEF Types
    <2>2. \A t \in Slugs : t # NoSlug
        BY AdmissionAssumption DEF Slugs
    <2> QED
        BY <1>4, <2>1, <2>2 DEF SeatsOf
<1>6. Cardinality(SeatsOf(s) \cup {c}) = Cardinality(SeatsOf(s)) + 1
    BY <1>5, SeatsFinite, FS_AddElement
<1>7. OneSeatEach' /\ MintsItsOwn'
    BY <1>3 DEF OneSeatEach, MintsItsOwn, Types
<1>8. MintedOnce' /\ NoneSeated'
    <2>1. invites[s].state = "active"
        BY DEF Claimable
    <2> QED
        BY <2>1, <1>2, <1>3, <1>5 DEF MintedOnce, NoneSeated, Slugs
<1>9. SeatsBounded'
    <2>1. \A t \in Slugs : invites[t].used \in Int /\ invites[t].max \in Int
        BY DEF Types, InviteRows
    <2>2. invites'[s].used <= invites'[s].max
        BY <1>2, <2>1 DEF Claimable
    <2>3. \A t \in Slugs : invites'[t].used = Cardinality(SeatsOf(t)')
        BY <1>2, <1>5, <1>6 DEF SeatsBounded
    <2>4. \A t \in Slugs : invites'[t].used = 0 \/ invites'[t].used <= invites'[t].max
        BY <1>2, <2>2 DEF SeatsBounded
    <2>5. \A d \in Requests : sessions'[d] # NoSession => seat'[d] = sessions'[d].invite
        <3>1. sessions[c] = NoSession
            BY DEF OneSeatEach
        <3> QED
            BY <3>1 DEF SeatsBounded, Types
    <2> QED
        BY <2>3, <2>4, <2>5 DEF SeatsBounded
<1> QED
    BY <1>1, <1>7, <1>8, <1>9

LEMMA RequestInv == ASSUME IInv, NEW c \in Requests, Request(c) PROVE IInv'
<1> USE DEF IInv
<1> DEFINE Moves(r) == request' = [request EXCEPT ![c] = r]
<1>r. request[c] \in Locals
    BY DEF Types
<1>e. ASSUME NEW how \in {"done", "refused", "lost"}, End(c, how),
             UNCHANGED <<now, personas, invites, sessions, seat>>
      PROVE  IInv'
    <2>1. Idle(how) \in Locals /\ Idle(how).pc = how
        BY IdleLocals
    <2>2. Moves(Idle(how))
        BY <1>e DEF End
    <2>3. Types'
        BY <1>e, <2>1, <2>2 DEF Types
    <2> QED
        BY <1>e, <2>1, <2>2, <2>3, RequestMoves
<1>g. ASSUME NEW label \in {"seat", "add"}, Goto(c, label),
             label = "seat" => request[c].pc = "lookup",
             label = "add" => request[c].pc = "persona",
             UNCHANGED <<now, personas, invites, sessions, seat>>
      PROVE  IInv'
    <2> DEFINE r == [request[c] EXCEPT !.pc = label]
    <2>1. r \in Locals /\ r.pc = label /\ r.slug = request[c].slug
        BY <1>r DEF Locals
    <2>2. Moves(r)
        BY <1>g, <1>r DEF Goto, Locals, Types
    <2>3. Types'
        BY <1>g, <2>1, <2>2 DEF Types
    <2>4. label = "seat" => r.slug \in Slugs
        BY <1>g, <2>1 DEF OneSeatEach
    <2> QED
        BY <1>g, <2>1, <2>2, <2>3, <2>4, RequestMoves
<1>1. ASSUME NEW l \in Links, NEW isRight \in BOOLEAN, Claim(c, l, isRight) PROVE IInv'
    <2>1. UNCHANGED <<now, personas, invites, sessions, seat>> /\ request[c].pc = "new"
        BY <1>1 DEF Claim, clockVars, adminVars
    <2>2. CASE End(c, "refused")
        BY <2>1, <2>2, <1>e
    <2>3. CASE Moves([pc |-> "lookup", slug |-> l, right |-> isRight, since |-> now,
                      persona |-> NoPersona])
        <3> DEFINE r == [pc |-> "lookup", slug |-> l, right |-> isRight, since |-> now,
                         persona |-> NoPersona]
        <3>1. r \in Locals /\ r.pc = "lookup" /\ r.slug \in Slugs
            BY DEF Locals, Types, Personas, Slugs
        <3>2. Types'
            BY <2>1, <2>3, <3>1 DEF Types
        <3> QED
            BY <2>1, <2>3, <3>1, <3>2, RequestMoves
    <2> QED
        BY <1>1, <2>2, <2>3 DEF Claim
<1>2. ASSUME NEW a \in Areas, StartJob(c, a) PROVE IInv'
    <2>1. UNCHANGED <<now, personas, invites, sessions, seat>> /\ request[c].pc = "new"
        BY <1>2 DEF StartJob, clockVars, adminVars
    <2>2. CASE End(c, "refused")
        BY <2>1, <2>2, <1>e
    <2>3. ASSUME NEW p \in Latest(a),
                 request' = [request EXCEPT ![c].pc = "mint", ![c].slug = c, ![c].persona = p]
          PROVE  IInv'
        <3> DEFINE r == [request[c] EXCEPT !.pc = "mint", !.slug = c, !.persona = p]
        <3>1. p \in Personas
            BY DEF Latest, Types, Personas
        <3>2. r \in Locals /\ r.pc = "mint" /\ r.slug = c
            BY <1>r, <3>1 DEF Locals, Slugs
        <3>3. Moves(r)
            BY <1>r, <2>3 DEF Types, Locals
        <3>4. Types'
            BY <2>1, <3>2, <3>3 DEF Types
        <3> HIDE DEF r
        <3> QED
            BY <2>1, <3>2, <3>3, <3>4, RequestMoves
    <2> QED
        BY <1>2, <2>2, <2>3 DEF StartJob
<1>3. CASE LookUp(c)
    <2>1. UNCHANGED <<now, personas, invites, sessions, seat>> /\ request[c].pc = "lookup"
        BY <1>3 DEF LookUp, clockVars, adminVars
    <2> QED
        BY <1>3, <2>1, <1>e, <1>g DEF LookUp, Refuse
<1>4. CASE TakeSeat(c)
    <2> DEFINE s == request[c].slug
    <2>1. UNCHANGED <<now, personas, sessions>> /\ request[c].pc = "seat" /\ s \in Slugs
        BY <1>4 DEF TakeSeat, clockVars, adminVars, OneSeatEach
    <2>2. CASE Claimable(invites[s], request[c].since)
        BY <1>4, <2>1, <2>2, SeatTaken DEF TakeSeat
    <2>3. CASE ~Claimable(invites[s], request[c].since)
        BY <1>4, <2>1, <2>3, <1>e DEF TakeSeat, Refuse
    <2> QED
        BY <2>2, <2>3
<1>5. CASE LoadPersona(c)
    <2>1. UNCHANGED <<now, personas, invites, sessions, seat>> /\ request[c].pc = "persona"
        BY <1>5 DEF LoadPersona, clockVars, adminVars
    <2>2. CASE Goto(c, "add")
        BY <2>1, <2>2, <1>g
    <2>3. CASE End(c, "refused")
        BY <2>1, <2>3, <1>e
    <2> QED
        BY <1>5, <2>2, <2>3 DEF LoadPersona
<1>6. CASE OpenSession(c)
    <2> USE <1>6 DEF OpenSession
    <2>1. UNCHANGED <<now, personas, invites, seat>> /\ request[c].pc = "add"
        BY DEF clockVars, adminVars
    <2>2. /\ \A d \in Requests : d # c => /\ request'[d] = request[d]
                                        /\ sessions'[d] = sessions[d]
          /\ request'[c].pc = "done"
          /\ sessions'[c] = [invite |-> request[c].slug, persona |-> request[c].persona]
        BY DEF Types, End, Idle
    <2>3. Types'
        <3>1. Idle("done") \in Locals
            BY IdleLocals
        <3>2. [invite |-> request[c].slug, persona |-> request[c].persona] \in SessionRows
            BY <1>r DEF SessionRows, Locals
        <3> QED
            BY <2>1, <3>1, <3>2 DEF Types, End, Idle
    <2>4. OneSeatEach' /\ MintedOnce' /\ MintsItsOwn'
        BY <2>1, <2>2 DEF OneSeatEach, MintedOnce, MintsItsOwn
    <2>5. NoneSeated' /\ SeatsBounded'
        BY <2>1, <2>2 DEF NoneSeated, SeatsBounded, SeatsOf, OneSeatEach
    <2> QED
        BY <2>3, <2>4, <2>5
<1>7. CASE MintForJob(c)
    BY <1>7, MintInv
<1>8. CASE LoseRequest(c)
    <2>1. UNCHANGED <<now, personas, invites, sessions, seat>>
        BY <1>8 DEF LoseRequest, adminVars
    <2> QED
        BY <1>8, <2>1, <1>e DEF LoseRequest
<1> QED
    BY <1>1, <1>2, <1>3, <1>4, <1>5, <1>6, <1>7, <1>8 DEF Request

LEMMA RestartInv == ASSUME IInv, Restart PROVE IInv'
<1> USE DEF IInv, Restart
<1>1. UNCHANGED <<now, personas, invites, sessions, seat>>
    BY DEF adminVars
<1>2. \A d \in Requests : request'[d] = request[d] \/ request'[d] = Idle("lost")
    BY DEF Types
<1>3. Idle("lost") \in Locals /\ Idle("lost").pc = "lost"
    BY IdleLocals
<1>4. Types'
    BY <1>1, <1>3 DEF Types
<1>5. OneSeatEach' /\ MintedOnce' /\ MintsItsOwn'
    BY <1>1, <1>2, <1>3 DEF OneSeatEach, MintedOnce, MintsItsOwn
<1>6. NoneSeated' /\ SeatsBounded'
    BY <1>1 DEF NoneSeated, SeatsBounded, SeatsOf
<1> QED
    BY <1>4, <1>5, <1>6

LEMMA NextInv == ASSUME IInv, [Next]_vars PROVE IInv'
<1>1. CASE UNCHANGED vars
    BY <1>1, OthersMove DEF IInv, Types, vars, clockVars, adminVars
<1>2. CASE Tick
    BY <1>2, OthersMove DEF Tick, IInv, Types, adminVars
<1> QED
    BY <1>1, <1>2, AdministerInv, RequestInv, RestartInv DEF Next

\* The theorem of the module: every session holds a seat of its own that its link
\* counted, and no link counts more seats than it was minted with (claim in
\* routers/session.py, start_job in routers/jobs.py, the conditional UPDATE of
\* SqlInviteRepository.claim).
THEOREM SeatsAreBounded == Spec => []SeatsBounded
<1>1. Init => IInv
    BY InitInv
<1>2. IInv /\ [Next]_vars => IInv'
    BY NextInv
<1>3. IInv => SeatsBounded
    BY DEF IInv
<1> QED
    BY <1>1, <1>2, <1>3, PTL DEF Spec

LEMMA SeatsChange ==
    ASSUME IInv, [Next]_vars
    PROVE  \/ seat' = seat
           \/ \E c \in Requests, s \in Slugs :
                 invites[s].state = "active" /\ seat[c] = NoSlug /\ seat' = [seat EXCEPT ![c] = s]
<1>1. CASE \E c \in Requests : TakeSeat(c)
    <2>1. PICK c \in Requests : TakeSeat(c)
        BY <1>1
    <2>2. request[c].slug \in Slugs /\ seat[c] = NoSlug
        BY <2>1 DEF TakeSeat, IInv, OneSeatEach
    <2> QED
        BY <2>1, <2>2 DEF TakeSeat, Claimable
<1>2. CASE Administer
    BY <1>2 DEF Administer, Register, Login, CreateArea, PublishPersona, RetireInvite, CreateInvite,
        SeedAdmin, SeedArea, SeedPersona
<1>3. ASSUME NEW c \in Requests, Request(c), ~TakeSeat(c) PROVE seat' = seat
    BY <1>3 DEF Request, Claim, StartJob, LookUp, LoadPersona, OpenSession, MintForJob, LoseRequest
<1>4. CASE Restart \/ Tick \/ UNCHANGED vars
    BY <1>4 DEF Restart, Tick, vars
<1> QED
    BY <1>1, <1>2, <1>3, <1>4 DEF Next

\* A retired link gives out no further seat, to requests that had looked it up
\* before neither (retire_invite in routers/admin.py against claim).
THEOREM RetiredLinksStayClosed == Spec => RetiredLinkIsClosed
<1>1. Init => IInv
    BY InitInv
<1>2. IInv /\ [Next]_vars => IInv'
    BY NextInv
<1>3. ASSUME IInv, [Next]_vars
      PROVE  \A l \in Links : invites[l].state = "retired" =>
                 {c \in Requests : seat'[c] = l} = SeatsOf(l)
    <2>1. CASE seat' = seat
        BY <2>1 DEF SeatsOf
    <2>2. ASSUME NEW d \in Requests, NEW s \in Slugs, invites[s].state = "active",
                 seat[d] = NoSlug, seat' = [seat EXCEPT ![d] = s],
                 NEW l \in Links, invites[l].state = "retired"
          PROVE  {c \in Requests : seat'[c] = l} = SeatsOf(l)
        <3>1. s # l /\ NoSlug # l
            BY <2>2, AdmissionAssumption
        <3>2. \A c \in Requests : seat'[c] = l <=> seat[c] = l
            BY <2>2, <3>1, <1>3 DEF IInv, Types
        <3> QED
            BY <3>2 DEF SeatsOf
    <2> QED
        BY <1>3, <2>1, <2>2, SeatsChange
<1> QED
    BY <1>1, <1>2, <1>3, PTL DEF Spec, RetiredLinkIsClosed

-------------------------------------------------------------------------------
(***************************************************************************)
(* No seat is wasted.                                                      *)
(***************************************************************************)

\* A seat leads to its session: its request carries the persona of the link it
\* was counted on until the session is pinned to it.
SeatLeads ==
    \A c \in Requests :
        seat[c] # NoSlug =>
            \/ /\ request[c].pc \in {"persona", "add"}
               /\ request[c].persona = invites[seat[c]].persona
            \/ request[c].pc = "lost"
            \/ sessions[c] = [invite |-> seat[c], persona |-> invites[seat[c]].persona]

\* A row keeps its persona from the mint on.
LEMMA PersonaPinned ==
    ASSUME IInv, [Next]_vars, NEW s \in Slugs, invites[s].state # "none"
    PROVE  invites'[s].persona = invites[s].persona
<1> USE DEF IInv, Types, InviteRows
<1>1. ASSUME NEW l \in Links, RetireInvite(l) PROVE invites'[s].persona = invites[s].persona
    BY <1>1 DEF RetireInvite
<1>2. ASSUME NEW l \in Links, NEW p \in personas, NEW max \in SeatCounts, NEW hours \in LinkTtls,
             CreateInvite(l, p, max, hours)
      PROVE  invites'[s].persona = invites[s].persona
    BY <1>2 DEF CreateInvite, Mint
<1>3. ASSUME Administer PROVE invites'[s].persona = invites[s].persona
    BY <1>1, <1>2, <1>3 DEF Administer, Register, Login, CreateArea, PublishPersona,
        SeedAdmin, SeedArea, SeedPersona
<1>4. ASSUME NEW c \in Requests, Request(c) PROVE invites'[s].persona = invites[s].persona
    <2>1. CASE MintForJob(c)
        <3>1. invites[c].state = "none"
            BY <2>1 DEF MintForJob, MintedOnce
        <3> QED
            BY <2>1, <3>1 DEF MintForJob, Mint
    <2>2. CASE TakeSeat(c)
        BY <2>2 DEF TakeSeat
    <2> QED
        BY <1>4, <2>1, <2>2 DEF Request, Claim, StartJob, LookUp, LoadPersona, OpenSession, LoseRequest
<1> QED
    BY <1>3, <1>4 DEF Next, Restart, Tick, vars

\* A request that has a seat has it from an existing row.
LEMMA SeatOfARow ==
    ASSUME IInv, NEW c \in Requests, seat[c] # NoSlug
    PROVE  seat[c] \in Slugs /\ invites[seat[c]].state # "none"
BY DEF IInv, Types, NoneSeated, SeatsOf

\* Links are minted for personas that were published, and what a request looked up
\* or was seated for is still there.
PersonasPublished ==
    /\ \A s \in Slugs : invites[s].state # "none" => invites[s].persona \in personas
    /\ \A c \in Requests :
          request[c].pc \in {"mint", "persona"} => request[c].persona \in personas

\* No operation deletes a persona.
LEMMA PersonasStay == ASSUME [Next]_vars PROVE personas \subseteq personas'
<1>1. CASE Administer
    BY <1>1 DEF Administer, Register, Login, CreateArea, PublishPersona, RetireInvite, CreateInvite,
        SeedAdmin, SeedArea, SeedPersona, adminVars
<1>2. CASE Restart \/ Tick \/ UNCHANGED vars
    BY <1>2 DEF Restart, Tick, vars, adminVars
<1>3. ASSUME NEW c \in Requests, Request(c) PROVE personas' = personas
    BY <1>3 DEF Request, Claim, StartJob, LookUp, TakeSeat, LoadPersona, OpenSession, MintForJob,
        LoseRequest, adminVars
<1> QED
    BY <1>1, <1>2, <1>3 DEF Next

LEMMA PersonasPublishedKept ==
    ASSUME IInv, PersonasPublished, [Next]_vars
    PROVE  PersonasPublished'
<1> USE DEF IInv
<1>1. personas \subseteq personas'
    BY PersonasStay
<1>2. ASSUME NEW s \in Slugs, invites'[s].state # "none" PROVE invites'[s].persona \in personas'
    <2>1. CASE invites[s].state # "none"
        BY <1>1, <2>1, PersonaPinned DEF PersonasPublished
    <2>2. CASE invites[s].state = "none"
        <3>1. ASSUME Administer PROVE invites'[s].persona \in personas
            <4>1. ASSUME NEW l \in Links, RetireInvite(l) PROVE FALSE
                BY <1>2, <2>2, <4>1 DEF RetireInvite, Types, InviteRows
            <4>2. ASSUME NEW l \in Links, NEW p \in personas, NEW max \in SeatCounts,
                         NEW hours \in LinkTtls, CreateInvite(l, p, max, hours)
                  PROVE  invites'[s].persona \in personas
                BY <1>2, <2>2, <4>2 DEF CreateInvite, Mint, Types
            <4> QED
                BY <1>2, <2>2, <3>1, <4>1, <4>2 DEF Administer, Register, Login, CreateArea,
                    PublishPersona, SeedAdmin, SeedArea, SeedPersona
        <3>2. ASSUME NEW c \in Requests, Request(c) PROVE invites'[s].persona \in personas
            <4>1. CASE MintForJob(c)
                <5>1. request[c].persona \in personas
                    BY <4>1 DEF MintForJob, PersonasPublished
                <5> QED
                    BY <1>2, <2>2, <4>1, <5>1 DEF MintForJob, Mint, Types
            <4>2. CASE TakeSeat(c)
                BY <1>2, <2>2, <4>2 DEF TakeSeat, Claimable, Types, InviteRows
            <4> QED
                BY <1>2, <2>2, <3>2, <4>1, <4>2
                   DEF Request, Claim, StartJob, LookUp, LoadPersona, OpenSession, LoseRequest
        <3> QED
            BY <1>1, <1>2, <2>2, <3>1, <3>2 DEF Next, Restart, Tick, vars
    <2> QED
        BY <2>1, <2>2
<1>3. ASSUME NEW d \in Requests, request'[d].pc \in {"mint", "persona"}
      PROVE  request'[d].persona \in personas'
    <2>1. CASE request'[d] = request[d]
        BY <1>1, <1>3, <2>1 DEF PersonasPublished
    <2>2. CASE request'[d] # request[d]
        <3>1. Request(d)
            <4>1. ~Administer /\ ~Tick /\ ~UNCHANGED vars
                BY <2>2 DEF Administer, Register, Login, CreateArea, PublishPersona, RetireInvite,
                    CreateInvite, SeedAdmin, SeedArea, SeedPersona, Tick, vars
            <4>2. ~Restart
                BY <1>3, <2>2 DEF Restart, Idle
            <4>3. ASSUME NEW c \in Requests, Request(c), c # d PROVE request'[d] = request[d]
                BY <4>3 DEF Request, Claim, StartJob, LookUp, Refuse, TakeSeat, LoadPersona, OpenSession,
                    MintForJob, LoseRequest, Goto, End, Types
            <4> QED
                BY <2>2, <4>1, <4>2, <4>3 DEF Next
        <3>2. ASSUME NEW a \in Areas, StartJob(d, a) PROVE request'[d].persona \in personas
            BY <1>3, <3>2 DEF StartJob, Latest, End, Idle, Types, Locals
        <3>3. CASE TakeSeat(d)
            <4>1. request[d].slug \in Slugs
                BY <3>3 DEF TakeSeat, OneSeatEach
            <4>2. CASE Claimable(invites[request[d].slug], request[d].since)
                <5>1. request'[d].persona = invites[request[d].slug].persona
                    BY <3>3, <4>2 DEF TakeSeat, Types, Locals
                <5>2. invites[request[d].slug].persona \in personas
                    BY <4>1, <4>2 DEF Claimable, PersonasPublished
                <5> QED
                    BY <1>1, <5>1, <5>2
            <4>3. CASE ~Claimable(invites[request[d].slug], request[d].since)
                BY <1>3, <3>3, <4>3 DEF TakeSeat, Refuse, End, Idle, Types
            <4> QED
                BY <4>2, <4>3
        <3>4. ~LookUp(d) /\ ~LoadPersona(d) /\ ~OpenSession(d) /\ ~MintForJob(d) /\ ~LoseRequest(d)
            BY <1>3 DEF LookUp, Refuse, LoadPersona, OpenSession, MintForJob, LoseRequest,
                Goto, End, Idle, Types, Locals
        <3>5. ASSUME NEW l \in Links, NEW isRight \in BOOLEAN, Claim(d, l, isRight) PROVE FALSE
            BY <1>3, <3>5 DEF Claim, End, Idle, Types
        <3> QED
            BY <1>1, <3>1, <3>2, <3>3, <3>4, <3>5 DEF Request
    <2> QED
        BY <2>1, <2>2
<1> QED
    BY <1>2, <1>3 DEF PersonasPublished

LEMMA SeatLeadsKept == ASSUME IInv, PersonasPublished, SeatLeads, [Next]_vars PROVE SeatLeads'
<1> USE DEF IInv
<1> SUFFICES ASSUME NEW d \in Requests, (seat[d] # NoSlug)'
             PROVE  \/ /\ request'[d].pc \in {"persona", "add"}
                       /\ request'[d].persona = invites'[seat'[d]].persona
                    \/ request'[d].pc = "lost"
                    \/ sessions'[d] = [invite |-> seat'[d], persona |-> invites'[seat'[d]].persona]
    BY DEF SeatLeads
<1> DEFINE Led == \/ /\ request'[d].pc \in {"persona", "add"}
                     /\ request'[d].persona = invites'[seat'[d]].persona
                  \/ request'[d].pc = "lost"
                  \/ sessions'[d] = [invite |-> seat'[d], persona |-> invites'[seat'[d]].persona]
<1>1. ASSUME seat'[d] = seat[d], request'[d] = request[d], sessions'[d] = sessions[d] PROVE Led
    BY <1>1, SeatOfARow, PersonaPinned DEF SeatLeads
<1>2. ASSUME seat'[d] = seat[d], request'[d].pc = "lost" PROVE Led
    BY <1>2
<1>3. CASE Administer
    <2>1. seat' = seat /\ request' = request /\ sessions' = sessions
        BY <1>3 DEF Administer, Register, Login, CreateArea, PublishPersona, RetireInvite,
            CreateInvite, SeedAdmin, SeedArea, SeedPersona
    <2> QED
        BY <2>1, <1>1
<1>4. CASE Tick \/ UNCHANGED vars
    BY <1>4, <1>1 DEF Tick, vars
<1>5. CASE Restart
    <2>1. request'[d] = request[d] \/ request'[d].pc = "lost"
        BY <1>5 DEF Restart, Idle
    <2> QED
        BY <1>5, <2>1, <1>1, <1>2 DEF Restart
<1>6. ASSUME NEW c \in Requests, Request(c) PROVE Led
    <2>1. CASE c # d
        <3>1. request'[d] = request[d] /\ seat'[d] = seat[d] /\ sessions'[d] = sessions[d]
            BY <1>6, <2>1 DEF Request, Claim, StartJob, LookUp, Refuse, TakeSeat, LoadPersona, OpenSession,
                MintForJob, LoseRequest, Goto, End, Types
        <3> QED
            BY <3>1, <1>1
    <2>2. CASE c = d
        <3> USE <2>2
        <3>1. ASSUME request[c].pc \in {"new", "lookup", "mint", "seat"}, ~TakeSeat(c) PROVE FALSE
            <4>1. seat' = seat
                BY <1>6, <3>1 DEF Request, Claim, StartJob, LookUp, LoadPersona, OpenSession,
                    MintForJob, LoseRequest
            <4> QED
                BY <3>1, <4>1 DEF OneSeatEach
        <3>2. CASE TakeSeat(c)
            <4> DEFINE s == request[c].slug
            <4>1. s \in Slugs /\ seat[c] = NoSlug /\ request[c] \in Locals
                BY <3>2 DEF TakeSeat, OneSeatEach, Types
            <4>2. /\ seat' = [seat EXCEPT ![c] = s]
                  /\ request' = [request EXCEPT ![c].pc = IF s \in Links THEN "persona" ELSE "add",
                                                ![c].persona = invites[s].persona]
                  /\ invites' = [invites EXCEPT ![s].used = @ + 1]
                BY <3>2, <4>1 DEF TakeSeat
            <4>3. seat'[c] = s /\ invites'[s].persona = invites[s].persona
                BY <4>1, <4>2 DEF Types, InviteRows
            <4>4. request'[c].pc \in {"persona", "add"} /\ request'[c].persona = invites[s].persona
                BY <4>1, <4>2 DEF Types, Locals
            <4> QED
                BY <4>3, <4>4
        <3>3. CASE LoadPersona(c)
            <4>1. seat[c] = request[c].slug /\ request[c].pc = "persona" /\ sessions[c] = NoSession
                BY <3>3 DEF LoadPersona, OneSeatEach
            <4>2. seat' = seat /\ invites' = invites
                BY <3>3 DEF LoadPersona
            <4>5. request[c].persona \in personas
                BY <4>1 DEF PersonasPublished
            <4>3. request'[c].pc = "add" /\ request'[c].persona = request[c].persona
                BY <3>3, <4>5 DEF LoadPersona, Goto, Types, Locals
            <4>4. sessions[c].invite = NoSlug
                BY <4>1 DEF NoSession
            <4> QED
                BY <4>1, <4>2, <4>3, <4>4 DEF SeatLeads
        <3>4. CASE OpenSession(c)
            <4>1. seat[c] = request[c].slug /\ request[c].pc = "add" /\ sessions[c] = NoSession
                BY <3>4 DEF OpenSession, OneSeatEach
            <4>2. seat' = seat /\ invites' = invites
                BY <3>4 DEF OpenSession
            <4>3. sessions'[c] = [invite |-> request[c].slug, persona |-> request[c].persona]
                BY <3>4 DEF OpenSession, Types
            <4>4. sessions[c].invite = NoSlug
                BY <4>1 DEF NoSession
            <4> QED
                BY <4>1, <4>2, <4>3, <4>4 DEF SeatLeads
        <3>5. CASE LoseRequest(c)
            <4>1. seat' = seat /\ request'[c].pc = "lost"
                BY <3>5 DEF LoseRequest, End, Idle, Types
            <4> QED
                BY <4>1, <1>2
        <3> QED
            BY <1>6, <3>1, <3>2, <3>3, <3>4, <3>5
               DEF Request, Claim, StartJob, LookUp, MintForJob
    <2> QED
        BY <2>1, <2>2
<1> QED
    BY <1>3, <1>4, <1>5, <1>6 DEF Next

\* A seat that was counted is not lost by a refusal or a race: its candidate is on
\* the way to a session pinned to the link's persona, has it, or was lost (claim in
\* routers/session.py takes the seat in one transaction, looks the persona up and
\* refuses when it finds none, and adds the session in another transaction).
THEOREM NoSeatIsWasted == Spec => []NoSeatWasted
<1> DEFINE Inv == IInv /\ PersonasPublished /\ SeatLeads
<1>1. Init => Inv
    BY InitInv DEF Init, SeatLeads, PersonasPublished, NoInvite, Idle
<1>2. Inv /\ [Next]_vars => Inv'
    BY NextInv, PersonasPublishedKept, SeatLeadsKept
<1>3. Inv => NoSeatWasted
    BY DEF SeatLeads, NoSeatWasted
<1> QED
    BY <1>1, <1>2, <1>3, PTL DEF Spec

-------------------------------------------------------------------------------
(***************************************************************************)
(* A lock keeps new attempts out.                                          *)
(***************************************************************************)

\* Nobody gets past the check of a link but by the check.
LEMMA NobodySlipsIn ==
    ASSUME IInv, [Next]_vars, NEW l \in Links, IsLocked(l)
    PROVE  PastTheCheck(l)' \subseteq PastTheCheck(l)
<1> USE DEF IInv, PastTheCheck
<1>1. CASE Administer \/ Tick \/ UNCHANGED vars
    BY <1>1 DEF Administer, Register, Login, CreateArea, PublishPersona, RetireInvite,
        CreateInvite, SeedAdmin, SeedArea, SeedPersona, Tick, vars
<1>2. CASE Restart
    BY <1>2 DEF Restart, Idle
<1>3. ASSUME NEW c \in Requests, Request(c)
      PROVE  PastTheCheck(l)' \subseteq PastTheCheck(l)
    <2>1. \A d \in Requests : d # c => request'[d] = request[d]
        BY <1>3 DEF Request, Claim, StartJob, LookUp, Refuse, TakeSeat, LoadPersona, OpenSession,
            MintForJob, LoseRequest, Goto, End, Types
    <2>2. c \in PastTheCheck(l)' => c \in PastTheCheck(l)
        <3>1. ASSUME NEW m \in Links, NEW isRight \in BOOLEAN, Claim(c, m, isRight)
              PROVE  c \notin PastTheCheck(l)'
            BY <3>1 DEF Claim, End, Idle, Types
        <3>2. ASSUME NEW a \in Areas, StartJob(c, a) PROVE c \notin PastTheCheck(l)'
            BY <3>2 DEF StartJob, End, Idle, Types, Locals
        <3>3. ASSUME MintForJob(c) PROVE c \notin PastTheCheck(l)'
            <4>1. request'[c].slug = c
                BY <3>3 DEF MintForJob, MintsItsOwn, Types, Locals
            <4> QED
                BY <4>1, AdmissionAssumption
        <3>4. CASE LookUp(c)
            BY <3>4 DEF LookUp, Refuse, Goto, End, Idle, Types, Locals
        <3>5. CASE TakeSeat(c)
            BY <3>5 DEF TakeSeat, Refuse, End, Idle, Types, Locals
        <3>6. CASE LoadPersona(c) \/ OpenSession(c) \/ LoseRequest(c)
            BY <3>6 DEF LoadPersona, OpenSession, LoseRequest, Goto, End, Idle, Types, Locals
        <3> QED
            BY <1>3, <3>1, <3>2, <3>3, <3>4, <3>5, <3>6 DEF Request
    <2> QED
        BY <2>1, <2>2
<1> QED
    BY <1>1, <1>2, <1>3 DEF Next

LockTypes ==
    /\ lockedUntil \in [Links -> Int]
    /\ before \in [Links -> SUBSET Requests]

\* What a step may do to the lock of a link: leave it, lift it, renew it, or bring it
\* down and note who was past the check.
LockChange(l) ==
    \/ lockedUntil'[l] = lockedUntil[l] /\ before'[l] = before[l]
    \/ lockedUntil'[l] = 0
    \/ IsLocked(l) /\ before'[l] = before[l]
    \/ before'[l] = PastTheCheck(l) /\ PastTheCheck(l)' \subseteq PastTheCheck(l)

\* A failure renews a lock, brings one down and notes who was past the check, or
\* leaves the lock alone.
LEMMA FailureLocks ==
    ASSUME IInv, LockTypes, NEW c \in Requests, Refuse(c)
    PROVE  LockTypes' /\ \A l \in Links : LockChange(l)
<1> DEFINE m == request[c].slug
           locks == failures[m] + 1 >= MaxAttempts
<1>1. /\ lockedUntil' = IF locks THEN [lockedUntil EXCEPT ![m] = request[c].since + Lockout]
                        ELSE lockedUntil
      /\ before' = IF locks /\ now >= lockedUntil[m]
                   THEN [before EXCEPT ![m] = PastTheCheck(m)]
                   ELSE before
    BY DEF Refuse, RecordFailure
<1>2. request[c].since + Lockout \in Int /\ PastTheCheck(m) \in SUBSET Requests /\ now \in Int
    BY AdmissionAssumption DEF IInv, Types, Locals, PastTheCheck
<1> HIDE DEF m, locks
<1>3. LockTypes'
    BY <1>1, <1>2 DEF LockTypes
<1>4. ASSUME NEW l \in Links
      PROVE  \/ lockedUntil'[l] = lockedUntil[l] /\ before'[l] = before[l]
             \/ IsLocked(l) /\ before'[l] = before[l]
             \/ before'[l] = PastTheCheck(l)
    <2>1. CASE l # m
        BY <1>1, <2>1 DEF LockTypes
    <2>2. CASE l = m
        BY <1>1, <1>2, <2>2 DEF LockTypes, IsLocked
    <2> QED
        BY <2>1, <2>2
<1>5. \A d \in Requests : request'[d] = request[d] \/ request'[d] = Idle("refused")
    BY DEF Refuse, End, IInv, Types
<1>6. \A l \in Links : PastTheCheck(l)' \subseteq PastTheCheck(l)
    BY <1>5 DEF PastTheCheck, Idle
<1> QED
    BY <1>3, <1>4, <1>6 DEF LockChange

LEMMA LocksChange ==
    ASSUME IInv, LockTypes, [Next]_vars
    PROVE  LockTypes' /\ \A l \in Links : LockChange(l)
<1>1. CASE UNCHANGED lockVars
    BY <1>1 DEF lockVars, LockTypes, LockChange
<1>2. CASE Restart
    BY <1>2 DEF Restart, LockTypes, LockChange
<1>3. CASE \E c \in Requests : Refuse(c)
    BY <1>3, FailureLocks
<1>4. ASSUME NEW c \in Requests, RecordSuccess(request[c].slug)
      PROVE  LockTypes' /\ \A l \in Links : LockChange(l)
    <2> DEFINE m == request[c].slug
    <2>1. lockedUntil' = [lockedUntil EXCEPT ![m] = 0] /\ before' = before
        BY <1>4 DEF RecordSuccess
    <2> HIDE DEF m
    <2>2. \A l \in Links : lockedUntil'[l] = lockedUntil[l] \/ lockedUntil'[l] = 0
        BY <2>1 DEF LockTypes
    <2>3. lockedUntil \in [Links -> Int] /\ 0 \in Int
        BY DEF LockTypes
    <2>4. LockTypes'
        BY <2>1, <2>3 DEF LockTypes
    <2>5. ASSUME NEW l \in Links PROVE LockChange(l)
        <3>1. before'[l] = before[l]
            BY <2>1
        <3> QED
            BY <2>2, <3>1, Zenon DEF LockChange
    <2> QED
        BY <2>4, <2>5
<1>5. CASE Administer \/ Tick \/ UNCHANGED vars
    BY <1>5, <1>1 DEF Administer, Register, Login, CreateArea, PublishPersona, RetireInvite,
        CreateInvite, SeedAdmin, SeedArea, SeedPersona, Tick, vars
<1>6. ASSUME NEW c \in Requests, Request(c), ~Refuse(c), ~RecordSuccess(request[c].slug)
      PROVE  UNCHANGED lockVars
    BY <1>6 DEF Request, Claim, StartJob, LookUp, TakeSeat, LoadPersona, OpenSession, MintForJob,
        LoseRequest
<1> QED
    BY <1>1, <1>2, <1>3, <1>4, <1>5, <1>6 DEF Next

LEMMA LockKeepsOutKept == ASSUME IInv, LockTypes, LockKeepsOut, [Next]_vars PROVE LockKeepsOut'
<1> SUFFICES ASSUME NEW l \in Links, now' < lockedUntil'[l]
             PROVE  PastTheCheck(l)' \subseteq before'[l]
    BY DEF LockKeepsOut
<1>1. now \in Int /\ lockedUntil[l] \in Int /\ now' \in Int /\ now <= now'
    <2>1. now' = now \/ now' = now + 1
        BY DEF Next, Administer, Register, Login, CreateArea, PublishPersona, RetireInvite, CreateInvite,
            SeedAdmin, SeedArea, SeedPersona, Request, Claim, StartJob, LookUp, TakeSeat, LoadPersona,
            OpenSession, MintForJob, LoseRequest, Restart, Tick, vars, clockVars
    <2> QED
        BY <2>1 DEF IInv, Types, LockTypes
<1>2. CASE lockedUntil'[l] = lockedUntil[l] /\ before'[l] = before[l]
    <2>1. IsLocked(l)
        BY <1>1, <1>2 DEF IsLocked
    <2> QED
        BY <1>2, <2>1, NobodySlipsIn DEF LockKeepsOut, IsLocked
<1>3. CASE IsLocked(l) /\ before'[l] = before[l]
    BY <1>3, NobodySlipsIn DEF LockKeepsOut, IsLocked
<1>4. CASE lockedUntil'[l] = 0
    <2>1. now' \in Nat
        BY NextInv DEF IInv, Types
    <2> QED
        BY <1>4, <2>1
<1>5. CASE before'[l] = PastTheCheck(l) /\ PastTheCheck(l)' \subseteq PastTheCheck(l)
    BY <1>5
<1> QED
    BY <1>2, <1>3, <1>4, <1>5, LocksChange DEF LockChange

\* Nobody starts on a locked link: while it is locked, whoever may still try its
\* passkey was past the check when the lock came down (is_locked and record_failure
\* in passkeys.py, between the awaits of claim).  How long the lock lasts is not
\* part of it: a late failure sets its end anew from the clock its request read,
\* which may shorten it, and a success lifts it.
THEOREM LocksKeepOut == Spec => []LockKeepsOut
<1> DEFINE Inv == IInv /\ LockTypes /\ LockKeepsOut
<1>1. Init => Inv
    BY InitInv DEF Init, LockTypes, LockKeepsOut, PastTheCheck, Idle
<1>2. Inv /\ [Next]_vars => Inv'
    BY LocksChange, NextInv, LockKeepsOutKept
<1>3. Inv => LockKeepsOut
    OBVIOUS
<1> QED
    BY <1>1, <1>2, <1>3, PTL DEF Spec

===============================================================================
