------------------------------ MODULE Accounts ------------------------------
(***************************************************************************)
(* Accounts and sessions: UserService (sign-up, sign-in with Google), and  *)
(* AuthService as one browser sees it, whose tabs sign in, refresh and     *)
(* sign out.  AdminAuthService is the same with the same cookies.          *)
(*                                                                         *)
(* Sign-up and the Google sign-in look for the account in one statement    *)
(* and write it in another; the unique e-mail and Google id of the table   *)
(* refuse the second of two.  A refresh carries the cookie the browser had *)
(* when it sent it; the server looks at that token only, some time later,  *)
(* and its answer may reach the browser after other answers.               *)
(*                                                                         *)
(* Left out: checking passwords and Google's signature, names and roles.   *)
(***************************************************************************)
EXTENDS Integers, Sequences, FiniteSets

CONSTANTS Emails,      \* User.email
          GoogleIds,   \* User.googleId
          Workers,     \* requests in progress at once
          AccessLife,  \* life of an access token
          RefreshLife, \* life of a refresh token
          LastTime,    \* bound: the last moment of the clock
          MaxUsers     \* bound: accounts

None == "NONE"

ASSUME AccountsAssumption ==
    /\ None \notin Emails \cup GoogleIds
    /\ {AccessLife, RefreshLife} \subseteq Nat
    /\ AccessLife <= RefreshLife
    /\ IsFiniteSet(Workers)

VARIABLES
    now,
    users,    \* User rows, by id: none is ever deleted
    jar,      \* the browser's cookies
    present,  \* history: the session last signed in to, none after a sign-out
    underway, \* history: the refreshes in progress when that happened
    returned, \* history: answers of other sessions that arrived since then
    answered, \* history: the account each Google id last signed in to
    ousted,   \* history: Google ids whose account another one has taken over
    call      \* the request of each worker

history == <<present, underway, returned, answered, ousted>>
vars == <<now, users, jar, history, call>>

NoCookie == [user |-> 0]
NoSession == <<0, 0>>
NoCall == [op |-> "idle"]

Init ==
    /\ now = 0
    /\ users = <<>>
    /\ jar = [access |-> NoCookie, refresh |-> NoCookie]
    /\ present = NoSession
    /\ underway = 0
    /\ returned = 0
    /\ answered = [g \in GoogleIds |-> 0]
    /\ ousted = {}
    /\ call = [w \in Workers |-> NoCall]

Free(w) == call[w] = NoCall
Set(w, record) == call' = [call EXCEPT ![w] = record]
Done(w) == Set(w, NoCall)

\* findUnique, as a set of one id or none
WithEmail(e) == {i \in DOMAIN users : users[i].email = e}
WithGoogle(g) == {i \in DOMAIN users : users[i].google = g}

-----------------------------------------------------------------------------
(* Cookies: a token names its account and its session, the moment of the   *)
(* sign-in.  The JWT is good until it expires, and the browser keeps the   *)
(* cookie for as long as it was told to.                                   *)

Token(i, session, life, cookieLife) ==
    [user |-> i, session |-> session, expires |-> now + life, kept |-> now + cookieLife]
Of(token) == <<token.user, token.session>>

\* Mutant: an expired token is taken all the same.
ValidForEver(token) == TRUE

Valid(token) == now < token.expires
Sent(token) == token # NoCookie /\ now < token.kept
Good(token) == Sent(token) /\ Valid(token)

InProgress == {w \in Workers : call[w].op \in {"ask", "refresh"}}

\* The browser is now in this session; nothing of another one has come since.
NowIn(session) ==
    /\ present' = session
    /\ underway' = Cardinality(InProgress)
    /\ returned' = 0

SignedIn(i, cookieLife) ==
    /\ jar' = [access |-> Token(i, now, AccessLife, AccessLife),
               refresh |-> Token(i, now, RefreshLife, cookieLife)]
    /\ NowIn(<<i, now>>)

SignOut ==
    /\ jar' = [access |-> NoCookie, refresh |-> NoCookie]
    /\ NowIn(NoSession)
    /\ UNCHANGED <<now, users, answered, ousted, call>>

\* The browser sends the refresh token that it has.
Ask(w) ==
    /\ Free(w)
    /\ Sent(jar.refresh)
    /\ Set(w, [op |-> "ask", token |-> jar.refresh])
    /\ UNCHANGED <<now, users, jar, history>>

\* The access token that a refresh token is worth.
Refreshed(token) == Token(token.user, token.session, AccessLife, AccessLife)

\* The server verifies what was sent and signs: the awaits of the code hand
\* over to no other request here (verify returns a plain value, and the times
\* of the new token are read when signAsync is called), so this is one moment.
Refresh(w) ==
    /\ call[w].op = "ask"
    /\ Valid(call[w].token)
    /\ Set(w, [op |-> "refresh", token |-> Refreshed(call[w].token)])
    /\ UNCHANGED <<now, users, jar, history>>

\* Mutant: the refresh token is renewed as well.
StoreBoth(token) ==
    [access |-> token,
     refresh |-> Token(token.user, token.session, RefreshLife, RefreshLife)]

StoreAccess(token) == [jar EXCEPT !.access = token]

Receive(w) ==
    /\ call[w].op = "refresh"
    /\ jar' = StoreAccess(call[w].token)
    /\ returned' = returned + (IF Of(call[w].token) = present THEN 0 ELSE 1)
    /\ Done(w)
    /\ UNCHANGED <<now, users, present, underway, answered, ousted>>

\* login, with the password of an account that has one
Login(e) ==
    /\ \E i \in WithEmail(e) : users[i].password /\ SignedIn(i, RefreshLife)
    /\ UNCHANGED <<now, users, answered, ousted, call>>

-----------------------------------------------------------------------------
(* Sign-up                                                                 *)

\* The body may carry more than the form asks for, and all of it is written.
SignUp(w, e, g) ==
    /\ Free(w)
    /\ WithEmail(e) = {}
    /\ Set(w, [op |-> "signup", email |-> e, google |-> g])
    /\ UNCHANGED <<now, users, jar, history>>

Insert(row) ==
    /\ Len(users) < MaxUsers
    /\ WithEmail(row.email) = {}
    /\ row.google # None => WithGoogle(row.google) = {}
    /\ users' = Append(users, row)

CreateUser(w) ==
    /\ call[w].op = "signup"
    /\ Insert([email |-> call[w].email, google |-> call[w].google, password |-> TRUE])
    /\ Done(w)
    /\ UNCHANGED <<now, jar, history>>

-----------------------------------------------------------------------------
(* upsertGoogleUser: by the Google id, then by e-mail, then a new account. *)
(* The cookie of the refresh token lives as long as the access token, its  *)
(* JWT as long as any refresh token.                                       *)

Google(w, g, e) ==
    /\ Free(w)
    /\ Set(w, IF WithGoogle(g) # {}
              THEN [op |-> "touch", google |-> g, id |-> CHOOSE i \in WithGoogle(g) : TRUE]
              ELSE [op |-> "look", google |-> g, email |-> e])
    /\ UNCHANGED <<now, users, jar, history>>

LookByEmail(w) ==
    /\ call[w].op = "look"
    /\ LET found == WithEmail(call[w].email) IN
       Set(w, IF found # {}
              THEN [op |-> "link", google |-> call[w].google,
                    id |-> CHOOSE i \in found : TRUE]
              ELSE [op |-> "create", google |-> call[w].google,
                    email |-> call[w].email])
    /\ UNCHANGED <<now, users, jar, history>>

GoogleAnswer(w, i) ==
    /\ SignedIn(i, AccessLife)
    /\ answered' = [answered EXCEPT ![call[w].google] = i]
    /\ Done(w)
    /\ UNCHANGED now

Touch(w) ==
    /\ call[w].op = "touch"
    /\ GoogleAnswer(w, call[w].id)
    /\ UNCHANGED <<users, ousted>>

\* Mutant: the Google id need not be unique.
LinkAnyway(g, i) == users' = [users EXCEPT ![i].google = g]

\* The Google id of the row found by e-mail is replaced, whatever it was.
LinkGoogle(g, i) ==
    /\ WithGoogle(g) \subseteq {i}
    /\ users' = [users EXCEPT ![i].google = g]

Link(w) ==
    /\ call[w].op = "link"
    /\ LinkGoogle(call[w].google, call[w].id)
    /\ ousted' = ousted \cup ({users[call[w].id].google} \ {None, call[w].google})
    /\ GoogleAnswer(w, call[w].id)

CreateGoogle(w) ==
    /\ call[w].op = "create"
    /\ Insert([email |-> call[w].email, google |-> call[w].google, password |-> FALSE])
    /\ GoogleAnswer(w, Len(users) + 1)
    /\ UNCHANGED ousted

\* A refused write, or an answer that never arrives.
Fail(w) == ~Free(w) /\ Done(w) /\ UNCHANGED <<now, users, jar, history>>

Tick ==
    /\ now < LastTime
    /\ now' = now + 1
    /\ UNCHANGED <<users, jar, history, call>>

Begin(w) ==
    \/ \E e \in Emails, g \in GoogleIds \cup {None} : SignUp(w, e, g)
    \/ \E g \in GoogleIds, e \in Emails : Google(w, g, e)
    \/ Ask(w)

Continue(w) ==
    \/ CreateUser(w) \/ LookByEmail(w) \/ Touch(w) \/ Link(w) \/ CreateGoogle(w)
    \/ Refresh(w) \/ Receive(w)
    \/ Fail(w)

Next ==
    \/ \E w \in Workers : Begin(w) \/ Continue(w)
    \/ \E e \in Emails : Login(e)
    \/ SignOut
    \/ Tick

Spec == Init /\ [][Next]_vars

-----------------------------------------------------------------------------
(* Properties *)

\* A Google id keeps signing in to the same account, however many sign-ins
\* overlap, unless another Google id came with the e-mail of that account and
\* took it over.
SameAccount ==
    [][\A g \in GoogleIds \ ousted :
          answered[g] # 0 => answered'[g] = answered[g]]_vars

\* Refreshing does not prolong a session: the browser's access token ends no
\* later than one life of it after the last moment of the refresh token the
\* session began with.
SessionEnds ==
    Good(jar.access) =>
        jar.access.expires <= jar.access.session + RefreshLife + AccessLife

\* The answer of a refresh may bring back an access token of a session the
\* browser has left, maybe of another user.  It happens at most once for each
\* refresh that was under way when the browser last signed in or out: what it
\* brings is no refresh token, so nothing more of that session is asked for.
OldSessionFades ==
    /\ returned <= underway
    /\ jar.access # NoCookie /\ Of(jar.access) # present => returned > 0
=============================================================================
