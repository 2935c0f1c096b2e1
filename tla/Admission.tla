------------------------------- MODULE Admission -------------------------------
(***************************************************************************)
(* How a candidate gets a session: an administrator publishes personas and *)
(* mints links with a passkey and a number of seats; a candidate claims a  *)
(* seat of a link, or starts a published job, which mints a link of one    *)
(* seat and claims it in the same request.  Requests are cut at their      *)
(* awaits: the lockout is read before the link, the seat is taken in one   *)
(* transaction and the session inserted in another, and the clock is read  *)
(* once, at the start.                                                     *)
(*                                                                         *)
(* The lockout lives in the API process; everything else is a table.       *)
(* Nothing in the schema ties a session to its invite.                     *)
(***************************************************************************)
EXTENDS Integers, FiniteSets

CONSTANTS
    Emails,            \* who may register
    Areas,
    Versions,          \* the versions a persona may be published as
    Links,             \* the slugs of the links the administrator mints
    Requests,          \* candidates' requests, each sent once
    NoSlug,
    SeatCounts,        \* the values of max_sessions
    LinkTtls,          \* the values of ttl_hours, in ticks; 0 asks for the default
    DefaultTtl,        \* invite_ttl_hours
    JobTtl,            \* _EPHEMERAL_INVITE_TTL_HOURS
    AccessTtl,         \* access_token_ttl_minutes
    MaxAttempts,       \* passkey_max_attempts
    Lockout,           \* passkey_lockout_minutes
    Horizon,           \* bound: the clock
    MaxFaults          \* bound: lost requests and restarts

ASSUME AdmissionAssumption ==
    /\ 1 \in Versions /\ Versions \subseteq Nat
    /\ Links \cap Requests = {}
    /\ NoSlug \notin Links \cup Requests
    /\ IsFiniteSet(Requests)
    /\ SeatCounts \subseteq Int
    /\ LinkTtls \subseteq Int
    /\ {DefaultTtl, JobTtl, AccessTtl, MaxAttempts, Lockout} \subseteq Nat \ {0}
    /\ {Horizon, MaxFaults} \subseteq Nat

VARIABLES
    now,
    users,         \* the accounts, by email
    bearer,        \* until when the administrator's token is good, 0 without one
    areas,
    personas,      \* the published personas: area and version
    invites,       \* the invite rows by slug; a job's slug is named by its request
    failures,      \* PasskeyLockout._state, by slug
    lockedUntil,
    request,       \* where a request is, and its locals: the link, whether the
                   \* passkey is right, the clock it read, the persona
    sessions,      \* the session rows, by the request that opened them
    seat,          \* ghost: the link whose seat a request took
    before,        \* ghost: who was past the check when a link was last locked
    faults

clockVars == <<now, faults>>
adminVars == <<users, bearer, areas, personas>>
lockVars == <<failures, lockedUntil, before>>
vars == <<clockVars, adminVars, invites, lockVars, request, sessions, seat>>

Slugs == Links \cup Requests
NoPersona == [area |-> "none", version |-> -1]
NoInvite == [state |-> "none", persona |-> NoPersona, expires |-> 0, max |-> 0, used |-> 0]
NoSession == [invite |-> NoSlug, persona |-> NoPersona]

Idle(label) == [pc |-> label, slug |-> NoSlug, right |-> FALSE, since |-> 0, persona |-> NoPersona]
InFlight(c) == request[c].pc \in {"lookup", "mint", "seat", "persona", "add"}

Init ==
    /\ now = 0
    /\ users = {}
    /\ bearer = 0
    /\ areas = {}
    /\ personas = {}
    /\ invites = [s \in Slugs |-> NoInvite]
    /\ failures = [l \in Links |-> 0]
    /\ lockedUntil = [l \in Links |-> 0]
    /\ request = [c \in Requests |-> Idle("new")]
    /\ sessions = [c \in Requests |-> NoSession]
    /\ seat = [c \in Requests |-> NoSlug]
    /\ before = [l \in Links |-> {}]
    /\ faults = 0

-------------------------------------------------------------------------------
(***************************************************************************)
(* The administrator.                                                      *)
(***************************************************************************)

\* encode_token, decode_token: what is signed is who, and until when.
TokenExpiry(ttl) == now + ttl
TokenHolds(expiry) == now < expiry

\* The rows of the four tables.
HasUser(e) == e \in users
AddUser(e) == users' = users \cup {e}
AddArea(a) == areas' = areas \cup {a}
AddPersona(p) == personas' = personas \cup {p}
AddSession(c, session) == sessions' = [sessions EXCEPT ![c] = session]

\* registration_open; a taken email is refused.
Register(e) ==
    /\ ~HasUser(e)
    /\ AddUser(e)
    /\ UNCHANGED <<clockVars, bearer, areas, personas, invites, lockVars, request, sessions, seat>>

Login(e) ==
    /\ HasUser(e)
    /\ bearer' = TokenExpiry(AccessTtl)
    /\ UNCHANGED <<clockVars, users, areas, personas, invites, lockVars, request, sessions, seat>>

\* require_admin, on every route of the administrator's router.
Authorized == TokenHolds(bearer)

CreateArea(a) ==
    /\ Authorized
    /\ a \notin areas
    /\ AddArea(a)
    /\ UNCHANGED <<clockVars, users, bearer, personas, invites, lockVars, request, sessions, seat>>

\* A version once published is never replaced: the unique index refuses it.
PublishPersona(p) ==
    /\ Authorized
    /\ p.area \in areas
    /\ p \notin personas
    /\ AddPersona(p)
    /\ UNCHANGED <<clockVars, users, bearer, areas, invites, lockVars, request, sessions, seat>>

\* body.ttl_hours or settings.invite_ttl_hours
Ttl(hours) == IF hours = 0 THEN DefaultTtl ELSE hours

Mint(s, p, max, ttl) ==
    invites' = [invites EXCEPT ![s] =
        [state |-> "active", persona |-> p, expires |-> now + ttl, max |-> max, used |-> 0]]

CreateInvite(l, p, max, hours) ==
    /\ Authorized
    /\ p \in personas
    /\ invites[l].state = "none"
    /\ Mint(l, p, max, Ttl(hours))
    /\ UNCHANGED <<clockVars, adminVars, lockVars, request, sessions, seat>>

\* The row is deleted: what it counted is kept here, for the properties.
DeleteInvite(l) == invites' = [invites EXCEPT ![l].state = "retired"]

RetireInvite(l) ==
    /\ Authorized
    /\ invites[l].state = "active"
    /\ DeleteInvite(l)
    /\ UNCHANGED <<clockVars, adminVars, lockVars, request, sessions, seat>>

-------------------------------------------------------------------------------
(***************************************************************************)
(* `make seed`, at any time and again: what is there is left alone.  What  *)
(* comes between its look and its insert is refused by a unique index, so  *)
(* that the two are one step here.  Its demo sessions are left out.        *)
(***************************************************************************)

\* latest_published
Latest(a) == {p \in personas : p.area = a /\ \A q \in personas : q.area = a => q.version <= p.version}

SeedAdmin(e) ==
    /\ ~HasUser(e)
    /\ AddUser(e)
    /\ UNCHANGED <<clockVars, bearer, areas, personas, invites, lockVars, request, sessions, seat>>

SeedArea(a) ==
    /\ a \notin areas
    /\ AddArea(a)
    /\ UNCHANGED <<clockVars, users, bearer, personas, invites, lockVars, request, sessions, seat>>

SeedPersona(a) ==
    /\ a \in areas
    /\ Latest(a) = {}
    /\ AddPersona([area |-> a, version |-> 1])
    /\ UNCHANGED <<clockVars, users, bearer, areas, invites, lockVars, request, sessions, seat>>

-------------------------------------------------------------------------------
(***************************************************************************)
(* The lockout.                                                            *)
(***************************************************************************)

IsLockedPastMax(l) == now < lockedUntil[l] /\ failures[l] > MaxAttempts
IsLocked(l) == now < lockedUntil[l]

PastTheCheck(l) == {c \in Requests : request[c].slug = l /\ request[c].pc \in {"lookup", "seat"}}

\* With the clock the request read at its start; a count that reached the
\* maximum stays there when the lock has passed.
RecordFailure(c) ==
    LET l == request[c].slug
        n == failures[l] + 1
        locks == n >= MaxAttempts
    IN  /\ failures' = [failures EXCEPT ![l] = n]
        /\ lockedUntil' = IF locks THEN [lockedUntil EXCEPT ![l] = request[c].since + Lockout]
                          ELSE lockedUntil
        /\ before' = IF locks /\ now >= lockedUntil[l]
                     THEN [before EXCEPT ![l] = PastTheCheck(l)]
                     ELSE before

RecordSuccess(l) ==
    /\ failures' = [failures EXCEPT ![l] = 0]
    /\ lockedUntil' = [lockedUntil EXCEPT ![l] = 0]
    /\ UNCHANGED before

-------------------------------------------------------------------------------
(***************************************************************************)
(* A claim.                                                                *)
(***************************************************************************)

Goto(c, label) == request' = [request EXCEPT ![c].pc = label]
End(c, how) == request' = [request EXCEPT ![c] = Idle(how)]

Claim(c, l, isRight) ==
    /\ request[c].pc = "new"
    /\ \/ /\ IsLocked(l)
          /\ End(c, "refused")
       \/ /\ ~IsLocked(l)
          /\ request' = [request EXCEPT ![c] =
                [pc |-> "lookup", slug |-> l, right |-> isRight, since |-> now,
                 persona |-> NoPersona]]
    /\ UNCHANGED <<clockVars, adminVars, invites, lockVars, sessions, seat>>

Refuse(c) == RecordFailure(c) /\ End(c, "refused")

LookUp(c) ==
    /\ request[c].pc = "lookup"
    /\ \/ /\ invites[request[c].slug].state = "active" /\ request[c].right
          /\ Goto(c, "seat")
          /\ UNCHANGED lockVars
       \/ /\ ~(invites[request[c].slug].state = "active" /\ request[c].right)
          /\ Refuse(c)
    /\ UNCHANGED <<clockVars, adminVars, invites, sessions, seat>>

ClaimableWhenRead(i, at) == at < i.expires /\ i.used < i.max
ClaimableOnceMore(i, at) == i.state = "active" /\ at < i.expires /\ i.used <= i.max
Claimable(i, at) == i.state = "active" /\ at < i.expires /\ i.used < i.max

\* One conditional UPDATE.  A job has just minted the row: its assertion that it
\* got the seat would end the request.
TakeSeat(c) ==
    /\ request[c].pc = "seat"
    /\ LET s == request[c].slug
       IN  \/ /\ Claimable(invites[s], request[c].since)
              /\ invites' = [invites EXCEPT ![s].used = @ + 1]
              /\ seat' = [seat EXCEPT ![c] = s]
              /\ request' = [request EXCEPT
                    ![c].pc = IF s \in Links THEN "persona" ELSE "add",
                    ![c].persona = invites[s].persona]
              /\ UNCHANGED lockVars
           \/ /\ ~Claimable(invites[s], request[c].since)
              /\ IF s \in Links THEN Refuse(c) ELSE End(c, "lost") /\ UNCHANGED lockVars
              /\ UNCHANGED <<invites, seat>>
    /\ UNCHANGED <<clockVars, adminVars, sessions>>

LoadPersonaOfOpenLink(c) ==
    /\ request[c].pc = "persona"
    /\ \/ /\ invites[request[c].slug].state = "active"
          /\ RecordSuccess(request[c].slug)
          /\ Goto(c, "add")
       \/ /\ invites[request[c].slug].state # "active"
          /\ End(c, "refused")
          /\ UNCHANGED lockVars
    /\ UNCHANGED <<clockVars, adminVars, invites, sessions, seat>>

\* The claim of a link whose persona is not found is refused with its seat taken.
\* No operation deletes a persona, so that it never is: NoSeatWasted depends on it.
LoadPersona(c) ==
    /\ request[c].pc = "persona"
    /\ IF request[c].persona \in personas
       THEN RecordSuccess(request[c].slug) /\ Goto(c, "add")
       ELSE End(c, "refused") /\ UNCHANGED lockVars
    /\ UNCHANGED <<clockVars, adminVars, invites, sessions, seat>>

OpenSession(c) ==
    /\ request[c].pc = "add"
    /\ AddSession(c, [invite |-> request[c].slug, persona |-> request[c].persona])
    /\ End(c, "done")
    /\ UNCHANGED <<clockVars, adminVars, invites, lockVars, seat>>

-------------------------------------------------------------------------------
(***************************************************************************)
(* Starting a job.                                                         *)
(***************************************************************************)

StartJob(c, a) ==
    /\ request[c].pc = "new"
    /\ a \in areas
    /\ \/ \E p \in Latest(a) :
             request' = [request EXCEPT ![c].pc = "mint", ![c].slug = c, ![c].persona = p]
       \/ /\ Latest(a) = {}
          /\ End(c, "refused")
    /\ UNCHANGED <<clockVars, adminVars, invites, lockVars, sessions, seat>>

MintForJob(c) ==
    /\ request[c].pc = "mint"
    /\ Mint(c, request[c].persona, 1, JobTtl)
    /\ request' = [request EXCEPT ![c].pc = "seat", ![c].since = now]
    /\ UNCHANGED <<clockVars, adminVars, lockVars, sessions, seat>>

-------------------------------------------------------------------------------

Fault == faults < MaxFaults /\ faults' = faults + 1

\* A database call raises, or the client is gone: a server error.
LoseRequest(c) ==
    /\ Fault
    /\ InFlight(c)
    /\ End(c, "lost")
    /\ UNCHANGED <<now, adminVars, invites, lockVars, sessions, seat>>

\* The process restarts, and the lockout with it.
Restart ==
    /\ Fault
    /\ request' = [c \in Requests |-> IF InFlight(c) THEN Idle("lost")
                                     ELSE request[c]]
    /\ failures' = [l \in Links |-> 0]
    /\ lockedUntil' = [l \in Links |-> 0]
    /\ UNCHANGED <<now, adminVars, invites, before, sessions, seat>>

Tick ==
    /\ now < Horizon
    /\ now' = now + 1
    /\ UNCHANGED <<faults, adminVars, invites, lockVars, request, sessions, seat>>

Administer ==
    \/ \E e \in Emails : Register(e) \/ Login(e) \/ SeedAdmin(e)
    \/ \E a \in Areas : CreateArea(a) \/ SeedArea(a) \/ SeedPersona(a)
    \/ \E p \in [area : Areas, version : Versions] : PublishPersona(p)
    \/ \E l \in Links : RetireInvite(l)
    \/ \E l \in Links, p \in personas, max \in SeatCounts, hours \in LinkTtls :
          CreateInvite(l, p, max, hours)

Request(c) ==
    \/ \E l \in Links, isRight \in BOOLEAN : Claim(c, l, isRight)
    \/ \E a \in Areas : StartJob(c, a)
    \/ LookUp(c) \/ TakeSeat(c) \/ LoadPersona(c) \/ OpenSession(c) \/ MintForJob(c)
    \/ LoseRequest(c)

Next == Administer \/ (\E c \in Requests : Request(c)) \/ Restart \/ Tick

Spec == Init /\ [][Next]_vars

-------------------------------------------------------------------------------
(***************************************************************************)
(* Properties.                                                             *)
(***************************************************************************)

\* No link admits more candidates than it has seats, whoever claims at the same
\* time, retires it or restarts the process: every session holds a seat of its
\* own that the link counted.
SeatsOf(s) == {c \in Requests : seat[c] = s}
SeatsBounded ==
    /\ \A s \in Slugs :
          /\ invites[s].used = Cardinality(SeatsOf(s))
          /\ invites[s].used = 0 \/ invites[s].used <= invites[s].max
    /\ \A c \in Requests : sessions[c] # NoSession => seat[c] = sessions[c].invite

\* A seat that was counted is a candidate's: its request is on the way to the
\* session, or has opened it, unless the request itself was lost.  The claim can
\* still be refused then, by the lookup of the persona; it is not, as a link is
\* minted for a published persona and none is ever deleted.
NoSeatWasted ==
    \A c \in Requests :
        seat[c] # NoSlug =>
            \/ request[c].pc \in {"persona", "add", "lost"}
            \/ sessions[c] = [invite |-> seat[c], persona |-> invites[seat[c]].persona]

\* A retired link gives out no further seat, to requests under way neither; what
\* was opened through it stays.
RetiredLinkIsClosed ==
    [][\A l \in Links :
          invites[l].state = "retired" =>
              {c \in Requests : seat'[c] = l} = SeatsOf(l)]_vars

\* Nobody starts on a locked link: whoever may still try its passkey was past
\* the check when the lock came down.
LockKeepsOut ==
    \A l \in Links : now < lockedUntil[l] => PastTheCheck(l) \subseteq before[l]

===============================================================================
