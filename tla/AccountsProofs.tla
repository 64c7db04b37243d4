--------------------------- MODULE AccountsProofs ---------------------------
(***************************************************************************)
(* Theorems about Accounts, for any number of accounts, Google ids and     *)
(* requests in progress, and any lives of the tokens.                      *)
(***************************************************************************)
EXTENDS Accounts, SequenceTheorems, FiniteSetTheorems, TLAPS

Row == [email: Emails, google: GoogleIds \cup {None}, password: BOOLEAN]
TokenType == [user: Nat, session: Nat, expires: Nat, kept: Nat]

\* The request of a worker, told apart by what it does next
Refreshing == [op: {"ask", "refresh"}, token: TokenType]
SigningUp == [op: {"signup"}, email: Emails, google: GoogleIds \cup {None}]
WithId == [op: {"touch", "link"}, google: GoogleIds, id: Nat]
WithMail == [op: {"look", "create"}, google: GoogleIds, email: Emails]
Calls == Refreshing \cup SigningUp \cup WithId \cup WithMail \cup {NoCall}

Typed ==
    /\ now \in Nat
    /\ users \in Seq(Row)
    /\ jar \in [access: TokenType \cup {NoCookie}, refresh: TokenType \cup {NoCookie}]
    /\ present \in Nat \X Nat
    /\ underway \in Nat
    /\ returned \in Nat
    /\ answered \in [GoogleIds -> Nat]
    /\ ousted \subseteq GoogleIds
    /\ call \in [Workers -> Calls]

-----------------------------------------------------------------------------
(* Sessions: what is true of the cookies and of the tokens under way       *)

\* A refresh token ends one life of it after its sign-in at the latest, and an
\* access token one life of it later.
Fresh(token) == token.expires <= token.session + RefreshLife
Short(token) == token.expires <= token.session + RefreshLife + AccessLife

\* The refreshes in progress with a token of another session than the present
Earlier == {w \in InProgress : Of(call[w].token) # present}

JarSound ==
    /\ jar.refresh # NoCookie => Fresh(jar.refresh) /\ Of(jar.refresh) = present
    /\ jar.access # NoCookie =>
          Short(jar.access) /\ (Of(jar.access) # present => returned > 0)

CallsSound ==
    \A w \in Workers :
        /\ call[w].op = "ask" => Fresh(call[w].token)
        /\ call[w].op = "refresh" => Short(call[w].token)

\* Each refresh that was under way returns once, or is still in progress.
Counted == returned + Cardinality(Earlier) <= underway

SessionInv == Typed /\ JarSound /\ CallsSound /\ Counted

\* The requests in progress bring no new token.
NoNewToken ==
    \A w \in Workers : call'[w].op \in {"ask", "refresh"} => call'[w] = call[w]

LEMMA FiniteProgress ==
    ASSUME AccountsAssumption
    PROVE  /\ IsFiniteSet(InProgress) /\ IsFiniteSet(Earlier)
           /\ Cardinality(InProgress) \in Nat /\ Cardinality(Earlier) \in Nat
<1>1. InProgress \subseteq Workers /\ Earlier \subseteq Workers
  BY DEF InProgress, Earlier
<1> QED
  BY <1>1, FS_Subset, FS_CardinalityType DEF AccountsAssumption

LEMMA OldTokens ==
    ASSUME SessionInv, NoNewToken
    PROVE  CallsSound'
BY DEF SessionInv, CallsSound, NoNewToken, Fresh, Short

\* Signing in or out begins a session: what is under way is of another one.
LEMMA NewSession ==
    ASSUME SessionInv, AccountsAssumption, NoNewToken,
           NEW session \in Nat \X Nat, NowIn(session)
    PROVE  /\ present' \in Nat \X Nat /\ underway' \in Nat /\ returned' \in Nat
           /\ Counted'
<1>1. Earlier' \subseteq InProgress
  BY DEF Earlier, InProgress, NoNewToken
<1>2. Cardinality(Earlier') <= Cardinality(InProgress) /\ Cardinality(Earlier') \in Nat
  BY <1>1, FiniteProgress, FS_Subset, FS_CardinalityType
<1> QED
  BY <1>2, FiniteProgress DEF NowIn, Counted

LEMMA SignInSound ==
    ASSUME SessionInv, AccountsAssumption, NoNewToken,
           NEW i \in Nat, NEW life \in Nat, SignedIn(i, life)
    PROVE  /\ jar' \in [access: TokenType \cup {NoCookie},
                        refresh: TokenType \cup {NoCookie}]
           /\ present' \in Nat \X Nat /\ underway' \in Nat /\ returned' \in Nat
           /\ JarSound' /\ CallsSound' /\ Counted'
<1> DEFINE access == Token(i, now, AccessLife, AccessLife)
           refresh == Token(i, now, RefreshLife, life)
<1>1. access \in TokenType /\ refresh \in TokenType
  BY DEF Token, TokenType, SessionInv, Typed, AccountsAssumption
<1>2. jar' = [access |-> access, refresh |-> refresh] /\ NowIn(<<i, now>>)
  BY DEF SignedIn
<1>3. /\ Of(access) = <<i, now>> /\ Of(refresh) = <<i, now>>
      /\ Fresh(refresh) /\ Short(access)
  BY DEF Token, Of, Fresh, Short, SessionInv, Typed, AccountsAssumption
<1> HIDE DEF access, refresh
<1>4. JarSound'
  BY <1>2, <1>3 DEF JarSound, NowIn
<1>5. <<i, now>> \in Nat \X Nat
  BY DEF SessionInv, Typed
<1> QED
  BY <1>1, <1>2, <1>4, <1>5, NewSession, OldTokens

\* The browser keeps what it has, and the server learns of no new token.
LEMMA SameSession ==
    ASSUME SessionInv, AccountsAssumption, jar' = jar, present' = present,
           underway' = underway, returned' = returned, NoNewToken
    PROVE  JarSound' /\ CallsSound' /\ Counted'
<1>1. JarSound'
  BY DEF JarSound, SessionInv, Fresh, Short
<1>2. Earlier' \subseteq Earlier
  BY DEF Earlier, InProgress, NoNewToken
<1>3. Cardinality(Earlier') <= Cardinality(Earlier) /\ Cardinality(Earlier') \in Nat
  BY <1>2, FiniteProgress, FS_Subset, FS_CardinalityType
<1>4. Counted'
  BY <1>3, FiniteProgress DEF Counted, SessionInv, Typed
<1> QED
  BY <1>1, <1>4, OldTokens

\* A request goes on with another token of the same session, or with the
\* present one: those of other sessions are as many as before.
LEMMA NextToken ==
    ASSUME SessionInv, AccountsAssumption, NEW w \in Workers, NEW new \in Refreshing,
           jar' = jar, UNCHANGED history, call' = [call EXCEPT ![w] = new],
           \/ Of(new.token) = present
           \/ w \in InProgress /\ Of(new.token) = Of(call[w].token),
           new.op = "ask" => Fresh(new.token),
           new.op = "refresh" => Short(new.token)
    PROVE  JarSound' /\ CallsSound' /\ Counted'
<1>1. call'[w] = new /\ \A v \in Workers \ {w} : call'[v] = call[v]
  BY DEF SessionInv, Typed
<1>2. JarSound'
  BY DEF JarSound, SessionInv, Fresh, Short, history
<1>3. CallsSound'
  BY <1>1 DEF CallsSound, SessionInv, Fresh, Short
<1>4. Earlier' \subseteq Earlier
  BY <1>1 DEF Earlier, InProgress, history
<1>5. Cardinality(Earlier') <= Cardinality(Earlier) /\ Cardinality(Earlier') \in Nat
  BY <1>4, FiniteProgress, FS_Subset, FS_CardinalityType
<1> QED
  BY <1>2, <1>3, <1>5, FiniteProgress DEF Counted, SessionInv, Typed, history

-----------------------------------------------------------------------------
(* Accounts: which account a Google id stands for                          *)

Unique ==
    \A i, j \in DOMAIN users :
        users[i].google = users[j].google /\ users[i].google # None => i = j

\* Account i is that of Google id g, unless another id took it over.
Owns(g, i) == i \in DOMAIN users /\ (users[i].google = g \/ g \in ousted)

AccountInv ==
    /\ Unique
    /\ \A g \in GoogleIds : answered[g] # 0 => Owns(g, answered[g])
    /\ \A w \in Workers :
          /\ call[w].op = "touch" => Owns(call[w].google, call[w].id)
          /\ call[w].op = "link" => call[w].id \in DOMAIN users

Inv == SessionInv /\ AccountInv

LEMMA InitInv == AccountsAssumption /\ Init => Inv
<1> SUFFICES ASSUME AccountsAssumption, Init PROVE Inv
  OBVIOUS
<1>1. Typed
  BY DEF Init, Typed, Calls, AccountsAssumption, NoSession
<1>2. JarSound /\ CallsSound
  BY DEF Init, JarSound, CallsSound, NoCall
<1>3. Earlier = {}
  BY DEF Init, Earlier, InProgress, NoCall
<1>4. Counted
  BY <1>3, FS_EmptySet DEF Init, Counted
<1>5. AccountInv
  BY DEF Init, AccountInv, Unique, NoCall
<1> QED
  BY <1>1, <1>2, <1>4, <1>5 DEF Inv, SessionInv

\* Requests that leave the rows and the answers alone, and come to know of an
\* account only what is so.
LEMMA SameAccounts ==
    ASSUME AccountInv, users' = users, answered' = answered, ousted' = ousted,
           \A w \in Workers :
              \/ call'[w] = call[w]
              \/ call'[w].op \notin {"touch", "link"}
              \/ Owns(call'[w].google, call'[w].id)
              \/ call'[w].op = "link" /\ call'[w].id \in DOMAIN users
    PROVE  AccountInv'
BY DEF AccountInv, Unique, Owns

\* A new row: its Google id is new, if it has one.
LEMMA Inserted ==
    ASSUME Typed, AccountsAssumption, AccountInv, NEW row \in Row, Insert(row)
    PROVE  /\ users' \in Seq(Row)
           /\ Unique'
           /\ DOMAIN users' = DOMAIN users \cup {Len(users) + 1}
           /\ \A i \in DOMAIN users : users'[i] = users[i]
           /\ users'[Len(users) + 1] = row
<1>1. users' = Append(users, row) /\ users \in Seq(Row)
  BY DEF Insert, Typed
<1>2. /\ users' \in Seq(Row) /\ Len(users') = Len(users) + 1
      /\ \A i \in 1 .. Len(users) : users'[i] = users[i]
      /\ users'[Len(users) + 1] = row
  BY <1>1, AppendProperties
<1>3. /\ DOMAIN users = 1 .. Len(users) /\ DOMAIN users' = 1 .. Len(users) + 1
      /\ Len(users) \in Nat
  BY <1>1, <1>2, LenProperties
<1>4. \A i \in DOMAIN users : row.google # None => users[i].google # row.google
  BY DEF Insert, WithGoogle
<1>5. DOMAIN users' = DOMAIN users \cup {Len(users) + 1}
  BY <1>3
<1>6. Unique'
  BY <1>2, <1>3, <1>4, <1>5 DEF Unique, AccountInv
<1> QED
  BY <1>2, <1>3, <1>5, <1>6

\* A row gets the Google id g, which no other row has.
LEMMA Linked ==
    ASSUME Typed, AccountInv, NEW g \in GoogleIds, NEW i \in DOMAIN users,
           LinkGoogle(g, i)
    PROVE  /\ users' \in Seq(Row)
           /\ Unique'
           /\ DOMAIN users' = DOMAIN users
           /\ users'[i].google = g
           /\ \A j \in DOMAIN users \ {i} : users'[j] = users[j]
<1> DEFINE new == [users[i] EXCEPT !.google = g]
<1>1. users \in Seq(Row) /\ users' = [users EXCEPT ![i] = new]
  BY DEF LinkGoogle, Typed
<1>2. users[i] \in Row
  BY <1>1, ElementOfSeq, LenProperties
<1>3. new \in Row /\ new.google = g
  BY <1>2 DEF Row
<1> HIDE DEF new
<1>4. /\ users' \in Seq(Row) /\ DOMAIN users' = DOMAIN users
      /\ users'[i] = new
      /\ \A j \in DOMAIN users \ {i} : users'[j] = users[j]
  BY <1>1, <1>3, ExceptSeq, LenProperties
<1>5. \A j \in DOMAIN users \ {i} : users[j].google # g
  BY DEF LinkGoogle, WithGoogle
<1>6. Unique'
  BY <1>3, <1>4, <1>5 DEF Unique, AccountInv
<1> QED
  BY <1>3, <1>4, <1>6

-----------------------------------------------------------------------------
(* The steps                                                               *)

\* Ids that a lookup finds are rows, and numbers.
LEMMA Found ==
    ASSUME Typed
    PROVE  /\ DOMAIN users \subseteq Nat
           /\ \A e \in Emails : WithEmail(e) \subseteq DOMAIN users
           /\ \A g \in GoogleIds : \A i \in WithGoogle(g) : Owns(g, i)
BY LenProperties DEF Typed, WithEmail, WithGoogle, Owns

LEMMA BeginKeeps ==
    ASSUME Inv, AccountsAssumption, NEW w \in Workers, Begin(w)
    PROVE  Inv'
<1> USE DEF Inv, SessionInv
<1>1. ASSUME NEW e \in Emails, NEW g \in GoogleIds \cup {None}, SignUp(w, e, g)
      PROVE  Inv'
  <2>1. call' = [call EXCEPT ![w] = [op |-> "signup", email |-> e, google |-> g]]
    BY <1>1 DEF SignUp, Set
  <2>2. [op |-> "signup", email |-> e, google |-> g] \in Calls
    BY DEF Calls, SigningUp
  <2>3. Typed'
    BY <1>1, <2>1, <2>2 DEF SignUp, history, Typed
  <2>4. NoNewToken
    BY <2>1 DEF NoNewToken, Typed
  <2>5. JarSound' /\ CallsSound' /\ Counted'
    BY <1>1, <2>4, SameSession DEF SignUp, history
  <2>6. AccountInv'
    BY <1>1, <2>1, SameAccounts DEF SignUp, history, Typed
  <2> QED
    BY <2>3, <2>5, <2>6
<1>2. ASSUME NEW g \in GoogleIds, NEW e \in Emails, Google(w, g, e)
      PROVE  Inv'
  <2> DEFINE touch == [op |-> "touch", google |-> g,
                       id |-> CHOOSE i \in WithGoogle(g) : TRUE]
             look == [op |-> "look", google |-> g, email |-> e]
  <2>1. CASE WithGoogle(g) # {}
    <3>1. touch.id \in WithGoogle(g)
      BY <2>1
    <3>2. touch \in Calls /\ Owns(touch.google, touch.id) /\ touch.op = "touch"
      BY <3>1, Found DEF Calls, WithId, WithGoogle
    <3> HIDE DEF touch
    <3>3. call' = [call EXCEPT ![w] = touch]
      BY <1>2, <2>1 DEF Google, Set, touch
    <3>4. Typed'
      BY <1>2, <3>2, <3>3 DEF Google, history, Typed
    <3>5. NoNewToken
      BY <3>2, <3>3 DEF NoNewToken, Typed
    <3>6. JarSound' /\ CallsSound' /\ Counted'
      BY <1>2, <3>5, SameSession DEF Google, history
    <3>7. \A v \in Workers :
             call'[v] = call[v] \/ Owns(call'[v].google, call'[v].id)
      BY <3>2, <3>3 DEF Typed
    <3>8. AccountInv'
      BY <1>2, <3>7, SameAccounts DEF Google, history
    <3> QED
      BY <3>4, <3>6, <3>8
  <2>2. CASE WithGoogle(g) = {}
    <3>1. call' = [call EXCEPT ![w] = look]
      BY <1>2, <2>2 DEF Google, Set
    <3>2. look \in Calls /\ look.op = "look"
      BY DEF Calls, WithMail
    <3> HIDE DEF look
    <3>3. Typed'
      BY <1>2, <3>1, <3>2 DEF Google, history, Typed
    <3>4. NoNewToken
      BY <3>1, <3>2 DEF NoNewToken, Typed
    <3>5. JarSound' /\ CallsSound' /\ Counted'
      BY <1>2, <3>4, SameSession DEF Google, history
    <3>6. \A v \in Workers :
             call'[v] = call[v] \/ call'[v].op \notin {"touch", "link"}
      BY <3>1, <3>2 DEF Typed
    <3>7. AccountInv'
      BY <1>2, <3>6, SameAccounts DEF Google, history
    <3> QED
      BY <3>3, <3>5, <3>7
  <2> QED
    BY <2>1, <2>2
<1>3. CASE Ask(w)
  <2> DEFINE new == [op |-> "ask", token |-> jar.refresh]
  <2>1. jar.refresh \in TokenType /\ jar.refresh # NoCookie
    BY <1>3 DEF Ask, Sent, Typed
  <2>2. call' = [call EXCEPT ![w] = new]
    BY <1>3 DEF Ask, Set
  <2>3. new \in Refreshing /\ new.op = "ask" /\ new.token = jar.refresh
    BY <2>1 DEF Refreshing
  <2> HIDE DEF new
  <2>4. Typed'
    BY <1>3, <2>2, <2>3 DEF Ask, history, Typed, Calls
  <2>5. JarSound' /\ CallsSound' /\ Counted'
    BY <1>3, <2>1, <2>2, <2>3, NextToken DEF Ask, JarSound
  <2>6. \A v \in Workers :
           call'[v] = call[v] \/ call'[v].op \notin {"touch", "link"}
    BY <2>2, <2>3 DEF Typed
  <2>7. AccountInv'
    BY <1>3, <2>6, SameAccounts DEF Ask, history
  <2> QED
    BY <2>4, <2>5, <2>7
<1> QED
  BY <1>1, <1>2, <1>3 DEF Begin

\* A worker is through with its request.
LEMMA DoneTyped ==
    ASSUME Typed, NEW w \in Workers, Done(w)
    PROVE  /\ call' \in [Workers -> Calls]
           /\ NoNewToken
           /\ \A v \in Workers : call'[v] = call[v] \/ call'[v] = NoCall
BY DEF Typed, Done, Set, Calls, NoNewToken, NoCall

\* A Google sign-in answers with account i.
LEMMA Answered ==
    ASSUME Inv, AccountsAssumption, NEW w \in Workers, NEW i \in Nat,
           NEW g \in GoogleIds, g = call[w].google, GoogleAnswer(w, i)
    PROVE  /\ jar' \in [access: TokenType \cup {NoCookie},
                        refresh: TokenType \cup {NoCookie}]
           /\ present' \in Nat \X Nat /\ underway' \in Nat /\ returned' \in Nat
           /\ JarSound' /\ CallsSound' /\ Counted'
           /\ call' \in [Workers -> Calls]
           /\ \A v \in Workers : call'[v] = call[v] \/ call'[v] = NoCall
           /\ answered' \in [GoogleIds -> Nat]
           /\ answered'[g] = i
           /\ \A h \in GoogleIds \ {g} : answered'[h] = answered[h]
<1>1. Done(w) /\ SignedIn(i, AccessLife) /\ now' = now
  BY DEF GoogleAnswer
<1>2. answered' = [answered EXCEPT ![g] = i]
  BY DEF GoogleAnswer
<1>3. AccessLife \in Nat /\ AccessLife <= RefreshLife
  BY DEF AccountsAssumption
<1> QED
  BY <1>1, <1>2, <1>3, DoneTyped, SignInSound DEF Inv, SessionInv, Typed

\* A request ends; the rows there were keep their owners.
LEMMA OwnersStay ==
    ASSUME Typed, AccountInv, Unique', DOMAIN users \subseteq DOMAIN users',
           \A h \in GoogleIds : \A j \in Nat : Owns(h, j) => Owns(h, j)',
           \A v \in Workers : call'[v] = call[v] \/ call'[v] = NoCall,
           \A h \in GoogleIds :
              answered'[h] = answered[h] \/ Owns(h, answered[h])'
    PROVE  AccountInv'
<1>1. ASSUME NEW h \in GoogleIds, answered'[h] # 0
      PROVE  Owns(h, answered[h])'
  BY <1>1 DEF AccountInv, Typed
<1>2. ASSUME NEW v \in Workers, call'[v].op = "touch"
      PROVE  Owns(call[v].google, call[v].id)'
  <2>1. call'[v] = call[v] /\ call[v].op = "touch" /\ call[v] \in Calls
    BY <1>2 DEF Typed, NoCall
  <2>2. call[v] \in WithId
    BY <2>1 DEF Calls, SigningUp, Refreshing, WithMail, NoCall
  <2> QED
    BY <1>2, <2>1, <2>2 DEF AccountInv, WithId
<1>3. ASSUME NEW v \in Workers, call'[v].op = "link"
      PROVE  (call[v].id \in DOMAIN users)'
  <2>1. call'[v] = call[v]
    BY <1>3 DEF NoCall
  <2> QED
    BY <1>3, <2>1 DEF AccountInv
<1> QED
  BY <1>1, <1>2, <1>3 DEF AccountInv

LEMMA ContinueKeeps ==
    ASSUME Inv, AccountsAssumption, NEW w \in Workers, Continue(w)
    PROVE  Inv'
<1> USE DEF Inv, SessionInv
<1>0. call[w] \in Calls
  BY DEF Typed
<1>1. CASE CreateUser(w)
  <2> DEFINE row == [email |-> call[w].email, google |-> call[w].google,
                     password |-> TRUE]
  <2>1. row \in Row
    BY <1>0, <1>1 DEF CreateUser, Calls, SigningUp, Refreshing, WithId, WithMail,
                      NoCall, Row
  <2>2. Insert(row) /\ Done(w)
    BY <1>1 DEF CreateUser
  <2> HIDE DEF row
  <2>3. Typed'
    BY <1>1, <2>1, <2>2, Inserted, DoneTyped DEF CreateUser, history, Typed
  <2>4. JarSound' /\ CallsSound' /\ Counted'
    BY <1>1, <2>2, DoneTyped, SameSession DEF CreateUser, history
  <2>5. /\ \A h \in GoogleIds : \A j \in Nat : Owns(h, j) => Owns(h, j)'
        /\ DOMAIN users \subseteq DOMAIN users' /\ Unique'
    BY <1>1, <2>1, <2>2, Inserted DEF CreateUser, history, Owns
  <2>6. AccountInv'
    BY <1>1, <2>2, <2>5, DoneTyped, OwnersStay DEF CreateUser, history
  <2> QED
    BY <2>3, <2>4, <2>6
<1>2. CASE LookByEmail(w)
  <2> DEFINE found == WithEmail(call[w].email)
             link == [op |-> "link", google |-> call[w].google,
                      id |-> CHOOSE i \in found : TRUE]
             create == [op |-> "create", google |-> call[w].google,
                        email |-> call[w].email]
  <2>1. call[w] \in WithMail
    BY <1>0, <1>2 DEF LookByEmail, Calls, SigningUp, Refreshing, WithId, NoCall
  <2>2. PICK new \in {link, create} :
           /\ call' = [call EXCEPT ![w] = new]
           /\ new = link => found # {}
    BY <1>2 DEF LookByEmail, Set
  <2>3. found # {} => link.id \in DOMAIN users
    BY <2>1, Found DEF WithMail
  <2>4. /\ new \in Calls
        /\ new.op = "create" \/ (new.op = "link" /\ new.id \in DOMAIN users)
    BY <2>1, <2>2, <2>3, Found DEF Calls, WithId, WithMail
  <2>5. Typed'
    BY <1>2, <2>2, <2>4 DEF LookByEmail, history, Typed
  <2>6. NoNewToken
    BY <2>2, <2>4 DEF NoNewToken, Typed
  <2>7. JarSound' /\ CallsSound' /\ Counted'
    BY <1>2, <2>6, SameSession DEF LookByEmail, history
  <2>8. \A v \in Workers :
           \/ call'[v] = call[v]
           \/ call'[v].op = "create"
           \/ call'[v].op = "link" /\ call'[v].id \in DOMAIN users
    BY <2>2, <2>4 DEF Typed
  <2>9. AccountInv'
    BY <1>2, <2>8, SameAccounts DEF LookByEmail, history
  <2> QED
    BY <2>5, <2>7, <2>9
<1>3. CASE Touch(w)
  <2>1. call[w] \in WithId
    BY <1>0, <1>3 DEF Touch, Calls, SigningUp, Refreshing, WithMail, NoCall
  <2>2. PICK g \in GoogleIds, i \in Nat :
           g = call[w].google /\ Owns(g, i) /\ GoogleAnswer(w, i)
    BY <1>3, <2>1 DEF Touch, WithId, AccountInv
  <2>3. now' = now /\ users' = users /\ ousted' = ousted
    BY <1>3 DEF Touch, GoogleAnswer
  <2>4. /\ Typed' /\ JarSound' /\ CallsSound' /\ Counted'
        /\ \A v \in Workers : call'[v] = call[v] \/ call'[v] = NoCall
        /\ answered'[g] = i
        /\ \A h \in GoogleIds \ {g} : answered'[h] = answered[h]
    BY <2>2, <2>3, Answered DEF Typed
  <2>5. AccountInv'
    BY <2>2, <2>3, <2>4 DEF AccountInv, Owns, Unique, NoCall
  <2> QED
    BY <2>4, <2>5
<1>4. CASE Link(w)
  <2>1. call[w] \in WithId
    BY <1>0, <1>4 DEF Link, Calls, SigningUp, Refreshing, WithMail, NoCall
  <2>2. PICK g \in GoogleIds, i \in Nat :
           /\ g = call[w].google /\ i = call[w].id /\ i \in DOMAIN users
           /\ LinkGoogle(g, i) /\ GoogleAnswer(w, i)
    BY <1>4, <2>1 DEF Link, WithId, AccountInv
  <2> DEFINE old == users[i].google
  <2>3. now' = now /\ ousted' = ousted \cup ({old} \ {None, g})
    BY <1>4, <2>2 DEF Link, GoogleAnswer
  <2>4. old \in GoogleIds \cup {None}
    <3>1. users[i] \in Row
      BY <2>2, ElementOfSeq, LenProperties DEF Typed
    <3> QED
      BY <3>1 DEF Row
  <2>5. /\ JarSound' /\ CallsSound' /\ Counted'
        /\ \A v \in Workers : call'[v] = call[v] \/ call'[v] = NoCall
        /\ answered'[g] = i
        /\ \A h \in GoogleIds \ {g} : answered'[h] = answered[h]
    BY <2>2, Answered
  <2>6. Typed'
    BY <2>2, <2>3, <2>4, Answered, Linked DEF Typed
  <2>7. \A h \in GoogleIds : \A j \in Nat : Owns(h, j) => Owns(h, j)'
    BY <2>2, <2>3, Linked DEF Owns, AccountsAssumption
  <2>8. Owns(g, i)' /\ Unique' /\ DOMAIN users' = DOMAIN users
    BY <2>2, Linked DEF Owns
  <2>9. AccountInv'
    BY <2>5, <2>7, <2>8, OwnersStay
  <2> QED
    BY <2>5, <2>6, <2>9
<1>5. CASE CreateGoogle(w)
  <2>1. call[w] \in WithMail /\ Len(users) + 1 \in Nat
    BY <1>0, <1>5, LenProperties
       DEF CreateGoogle, Calls, SigningUp, Refreshing, WithId, NoCall, Typed
  <2>2. PICK g \in GoogleIds, i \in Nat, row \in Row :
           /\ g = call[w].google /\ row.google = g /\ i = Len(users) + 1
           /\ Insert(row) /\ GoogleAnswer(w, i)
    BY <1>5, <2>1 DEF CreateGoogle, WithMail, Row
  <2>3. now' = now /\ ousted' = ousted
    BY <1>5, <2>2 DEF CreateGoogle, GoogleAnswer
  <2>4. /\ JarSound' /\ CallsSound' /\ Counted'
        /\ \A v \in Workers : call'[v] = call[v] \/ call'[v] = NoCall
        /\ answered'[g] = i
        /\ \A h \in GoogleIds \ {g} : answered'[h] = answered[h]
    BY <2>2, Answered
  <2>5. Typed'
    BY <2>2, <2>3, Answered, Inserted DEF Typed
  <2>6. /\ users'[i] = row /\ i \in DOMAIN users' /\ Unique'
        /\ DOMAIN users \subseteq DOMAIN users'
        /\ \A j \in DOMAIN users : users'[j] = users[j]
    BY <2>2, Inserted
  <2>7. /\ \A h \in GoogleIds : \A j \in Nat : Owns(h, j) => Owns(h, j)'
        /\ Owns(g, i)'
    BY <2>2, <2>3, <2>6 DEF Owns
  <2>8. AccountInv'
    BY <2>4, <2>6, <2>7, OwnersStay
  <2> QED
    BY <2>4, <2>5, <2>8
<1>6. CASE Receive(w)
  <2> DEFINE token == call[w].token
  <2>1. token \in TokenType /\ Short(token) /\ w \in InProgress
    BY <1>0, <1>6 DEF Receive, CallsSound, Calls, Refreshing, SigningUp, WithId,
                      WithMail, NoCall, InProgress
  <2>2. /\ Done(w) /\ jar' = [jar EXCEPT !.access = token]
        /\ returned' = returned + (IF Of(token) = present THEN 0 ELSE 1)
        /\ present' = present /\ underway' = underway
    BY <1>6 DEF Receive, StoreAccess
  <2>3. Earlier' \subseteq Earlier \ {w}
    BY <2>2, DoneTyped DEF Earlier, InProgress, Done, Set, NoCall, Typed
  <2>4. Of(token) # present => w \in Earlier
    BY <2>1 DEF Earlier
  <2> HIDE DEF token
  <2>5. Typed'
    <3>1. returned' \in Nat
      BY <2>2 DEF Typed
    <3>2. jar' \in [access: TokenType \cup {NoCookie}, refresh: TokenType \cup {NoCookie}]
      BY <2>1, <2>2 DEF Typed
    <3>3. UNCHANGED <<now, users, answered, ousted>>
      BY <1>6 DEF Receive
    <3> QED
      BY <2>2, <3>1, <3>2, <3>3, DoneTyped DEF Typed
  <2>6. jar'.refresh = jar.refresh /\ jar'.access = token
    BY <2>2 DEF Typed
  <2>7. JarSound'
    BY <2>1, <2>2, <2>6 DEF JarSound, Fresh, Short, Typed
  <2>8. CallsSound'
    BY <2>2, DoneTyped, OldTokens
  <2>9. Counted'
    <3>1. /\ IsFiniteSet(Earlier \ {w})
          /\ Cardinality(Earlier \ {w})
                = Cardinality(Earlier) - (IF w \in Earlier THEN 1 ELSE 0)
      BY FiniteProgress, FS_RemoveElement
    <3>2. /\ Cardinality(Earlier') <= Cardinality(Earlier \ {w})
          /\ Cardinality(Earlier') \in Nat
      BY <2>3, <3>1, FS_Subset, FS_CardinalityType
    <3> QED
      BY <2>2, <2>4, <3>1, <3>2, FiniteProgress DEF Counted, Typed
  <2>10. AccountInv'
    BY <1>6, <2>2, DoneTyped, SameAccounts DEF Receive, NoCall
  <2> QED
    BY <2>5, <2>7, <2>8, <2>9, <2>10
<1>7. CASE Fail(w)
  <2>1. Done(w)
    BY <1>7 DEF Fail
  <2>2. Typed'
    BY <1>7, <2>1, DoneTyped DEF Fail, history, Typed
  <2>3. JarSound' /\ CallsSound' /\ Counted'
    BY <1>7, <2>1, DoneTyped, SameSession DEF Fail, history
  <2>4. AccountInv'
    BY <1>7, <2>1, DoneTyped, SameAccounts DEF Fail, history, NoCall
  <2> QED
    BY <2>2, <2>3, <2>4
<1>8. CASE Refresh(w)
  <2> DEFINE token == Refreshed(call[w].token)
             new == [op |-> "refresh", token |-> token]
  <2>1. /\ call[w].token \in TokenType /\ now < call[w].token.expires
        /\ Fresh(call[w].token) /\ w \in InProgress
    BY <1>0, <1>8 DEF Refresh, Valid, CallsSound, Calls, Refreshing, SigningUp,
                      WithId, WithMail, NoCall, InProgress
  <2>2. token \in TokenType /\ Of(token) = Of(call[w].token) /\ Short(token)
    <3>1. /\ token.user = call[w].token.user /\ token.session = call[w].token.session
          /\ token.expires = now + AccessLife
      BY DEF Refreshed, Token
    <3>2. token \in TokenType
      BY <2>1 DEF Refreshed, Token, TokenType, Typed, AccountsAssumption
    <3>3. Short(token)
      BY <2>1, <3>1 DEF Fresh, Short, TokenType, Typed, AccountsAssumption
    <3> QED
      BY <3>1, <3>2, <3>3 DEF Of
  <2>3. call' = [call EXCEPT ![w] = new]
    BY <1>8 DEF Refresh, Set
  <2>4. new \in Refreshing /\ new.op = "refresh" /\ new.token = token
    BY <2>2 DEF Refreshing
  <2> HIDE DEF new, token
  <2>5. Typed'
    BY <1>8, <2>3, <2>4 DEF Refresh, history, Typed, Calls
  <2>6. JarSound' /\ CallsSound' /\ Counted'
    BY <1>8, <2>1, <2>2, <2>3, <2>4, NextToken DEF Refresh
  <2>7. \A v \in Workers :
           call'[v] = call[v] \/ call'[v].op \notin {"touch", "link"}
    BY <2>3, <2>4 DEF Typed
  <2>8. AccountInv'
    BY <1>8, <2>7, SameAccounts DEF Refresh, history
  <2> QED
    BY <2>5, <2>6, <2>8
<1> QED
  BY <1>1, <1>2, <1>3, <1>4, <1>5, <1>6, <1>7, <1>8 DEF Continue

LEMMA OthersKeep ==
    ASSUME Inv, AccountsAssumption,
           (\E e \in Emails : Login(e)) \/ SignOut \/ Tick \/ UNCHANGED vars
    PROVE  Inv'
<1> USE DEF Inv, SessionInv
<1>1. users' = users /\ call' = call /\ answered' = answered /\ ousted' = ousted
  BY DEF Login, SignOut, Tick, vars, history
<1>2. AccountInv'
  BY <1>1, SameAccounts
<1>3. NoNewToken
  BY <1>1 DEF NoNewToken
<1>4. CASE \E e \in Emails : Login(e)
  <2>1. PICK i \in Nat : SignedIn(i, RefreshLife)
    BY <1>4, Found DEF Login
  <2>2. now' = now /\ RefreshLife \in Nat
    BY <1>4 DEF Login, AccountsAssumption
  <2>3. /\ JarSound' /\ CallsSound' /\ Counted'
        /\ present' \in Nat \X Nat /\ underway' \in Nat /\ returned' \in Nat
        /\ jar' \in [access: TokenType \cup {NoCookie},
                     refresh: TokenType \cup {NoCookie}]
    BY <1>3, <2>1, <2>2, SignInSound
  <2> QED
    BY <1>1, <1>2, <2>2, <2>3 DEF Typed
<1>5. CASE SignOut
  <2>1. /\ now' = now /\ NowIn(NoSession)
        /\ jar' = [access |-> NoCookie, refresh |-> NoCookie]
    BY <1>5 DEF SignOut
  <2>2. /\ Counted'
        /\ present' \in Nat \X Nat /\ underway' \in Nat /\ returned' \in Nat
    BY <1>3, <2>1, NewSession DEF NoSession
  <2>3. Typed'
    BY <1>1, <2>1, <2>2 DEF Typed
  <2>4. JarSound' /\ CallsSound'
    BY <1>3, <2>1, OldTokens DEF JarSound
  <2> QED
    BY <1>2, <2>2, <2>3, <2>4
<1>6. CASE Tick \/ UNCHANGED vars
  <2>1. /\ jar' = jar /\ UNCHANGED <<present, underway, returned>>
        /\ now' = now \/ now' = now + 1
    BY <1>6 DEF Tick, vars, history
  <2>2. Typed'
    BY <1>1, <2>1 DEF Typed
  <2>3. JarSound' /\ CallsSound' /\ Counted'
    BY <1>3, <2>1, SameSession
  <2> QED
    BY <1>2, <2>2, <2>3
<1> QED
  BY <1>4, <1>5, <1>6

LEMMA StepKeeps == Inv /\ AccountsAssumption /\ [Next]_vars => Inv'
BY BeginKeeps, ContinueKeeps, OthersKeep DEF Next

LEMMA InvAlways == Spec => []Inv
BY AccountsAssumption, InitInv, StepKeeps, PTL DEF Spec

-----------------------------------------------------------------------------
(* The theorems                                                            *)

\* Refreshing never makes a session longer than the life of a refresh token
\* and that of an access token together.
THEOREM SessionsEnd == Spec => []SessionEnds
<1>1. Inv => SessionEnds
  BY DEF Inv, SessionInv, JarSound, Short, SessionEnds, Good, Sent
<1> QED
  BY <1>1, InvAlways, PTL

\* After the browser signed in or out, tokens of other sessions come back at
\* most once for each refresh that was under way then, and are in the browser
\* only if one did.
THEOREM OldSessionsFade == Spec => []OldSessionFades
<1>1. Inv /\ AccountsAssumption => OldSessionFades
  BY FiniteProgress DEF Inv, SessionInv, Typed, JarSound, Counted, OldSessionFades
<1> QED
  BY <1>1, AccountsAssumption, InvAlways, PTL

\* A request answers a Google id that has answered before, and was not taken
\* over, with the same account: two rows with one Google id there are not.
LEMMA AnswerIsOwner ==
    ASSUME Inv, AccountsAssumption, [Next]_vars,
           NEW g \in GoogleIds \ ousted, answered[g] # 0
    PROVE  answered'[g] = answered[g]
<1>1. /\ answered[g] \in DOMAIN users /\ users[answered[g]].google = g
      /\ answered[g] \in WithGoogle(g)
  BY DEF Inv, AccountInv, Owns, WithGoogle
<1>2. \A i \in WithGoogle(g) : i = answered[g]
  BY <1>1 DEF Inv, AccountInv, Unique, WithGoogle, AccountsAssumption
<1>3. CASE answered' = answered
  BY <1>3
<1>4. ASSUME NEW w \in Workers, Touch(w) \/ Link(w) \/ CreateGoogle(w)
      PROVE  answered'[g] = answered[g]
  <2>1. PICK i : /\ answered' = [answered EXCEPT ![call[w].google] = i]
                 /\ call[w].google = g => i = answered[g]
    <3>1. CASE Touch(w)
      <4>1. call[w].google = g => call[w].id \in WithGoogle(g)
        BY <3>1 DEF Touch, Inv, AccountInv, Owns, WithGoogle
      <4> QED
        BY <1>2, <3>1, <4>1 DEF Touch, GoogleAnswer
    <3>2. CASE Link(w)
      BY <1>1, <3>2 DEF Link, LinkGoogle, GoogleAnswer
    <3>3. CASE CreateGoogle(w)
      BY <1>1, <3>3 DEF CreateGoogle, Insert, GoogleAnswer, AccountsAssumption
    <3> QED
      BY <1>4, <3>1, <3>2, <3>3
  <2> QED
    BY <2>1 DEF Inv, SessionInv, Typed
<1>5. \/ answered' = answered
      \/ \E w \in Workers : Touch(w) \/ Link(w) \/ CreateGoogle(w)
  BY DEF Next, vars, history, Begin, Continue, SignUp, Google, Ask, Refresh,
         CreateUser, LookByEmail, Receive, Fail, Login, SignOut, Tick
<1> QED
  BY <1>3, <1>4, <1>5

\* However many sign-ins overlap, a Google id keeps its account.
THEOREM AccountsKept == Spec => SameAccount
<1>1. Inv /\ AccountsAssumption /\ [Next]_vars =>
         [\A g \in GoogleIds \ ousted :
             answered[g] # 0 => answered'[g] = answered[g]]_vars
  BY AnswerIsOwner
<1> QED
  BY <1>1, AccountsAssumption, InvAlways, PTL DEF Spec, SameAccount
=============================================================================
