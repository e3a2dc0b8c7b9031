----------------------------- MODULE SignIn_proofs -----------------------------
(***************************************************************************)
(* Proofs about SignIn, for any accounts, browsers and tokens, any number  *)
(* of goroutines, whatever each is asked for, and any number of failures.  *)
(***************************************************************************)
EXTENDS SignIn, TLAPS

----------------------------------------------------------------------------
\* What may be among the steps of a request

\* No request makes second factors necessary for somebody for whom they were not.
SettingsOn(rows) ==
  /\ Of("settings", "general", rows) # {}
  /\ \A r \in Of("settings", "general", rows) : "totp" \in DOMAIN r[3] /\ r[3].totp
Lasting ==
  /\ \A w \in Worker : \A op \in Does[w] :
       /\ op[1] \notin {"totpConfirm", "apiTotpConfirm"}
       /\ op[1] = "settings" => "totp" \notin DOMAIN op[2]
  /\ \A rows \in Start : SettingsOn(rows)

\* Whether request o may let u in.
AppIn(u, rows) ==
  /\ Setting(rows).totp /\ Has("totp", u, rows)
  /\ \A start \in Start : Of("totp", u, start) = Of("totp", u, rows)
Brought(o, u, rows) ==
  \/ o[1] \in {"mfaChallenge", "apiMFA"} /\ o[3] = The("totp", u, rows)
  \/ o[1] \in {"finishAssertion", "passkeyFinish"}
Lawful(o, u, rows) == Lasting /\ AppIn(u, rows) => Brought(o, u, rows)

\* A statement never gives a token that is spent back, nor anybody an app.
WhereOk(o, op, rows) ==
  /\ op[1] \in {"put", "try", "create", "set", "delete", "spend", "enter", "tryEnter", "register",
                "unlink", "sign"}
  /\ op[1] \in {"put", "try"} =>
       /\ op[2] \notin {"pending", "spent"}
       /\ op[2] = "token" => op[4].used
       /\ Lasting => op[2] # "totp"
       /\ Lasting /\ op[2] = "settings" => op[3] = "general" /\ "totp" \in DOMAIN op[4] /\ op[4].totp
  /\ op[1] = "create" => op[2] \notin {"spent", "totp", "settings"}
  /\ op[1] = "delete" => op[2] \notin {"token", "spent", "settings"}
  /\ op[1] \in {"enter", "tryEnter"} => Lawful(o, op[4], rows)
  /\ (op[1] = "sign" /\ o[1] # "apiRefresh") => Lawful(o, op[3], rows)

\* Parts of a handler, which come with what the handler has found out.
Part == {"exists", "authenticate", "enterSite", "enterAdmin", "assertion", "ensureToken",
         "apiAuthenticate", "apiEnter", "saveSecret", "rotate", "saveApi", "findUser", "findMail", "allowed"}
CallOk(o, op, rows) ==
  \/ op = o
  \/ op[1] \in Part
  \/ op[1] = "verifyCode" /\ o[1] = "mfaChallenge" /\ op[4] = o[3]
  \/ op[1] = "apiCode" /\ o[1] = "apiMFA" /\ op[3] = o[3]
  \/ op[1] = "mayEnter" /\ o[1] = "passkeyFinish"
  \/ op[1] = "issue" /\ (o[1] # "apiRefresh" => Lawful(o, op[2], rows))

SimpleOk(o, s, rows) ==
  \/ s.do = "call" /\ CallOk(o, s.op, rows)
  \/ s.do = "where" /\ WhereOk(o, s.op, rows)
  \/ s.do = "statement" /\ s.add = {} /\ \A r \in s.drop : r[1] = "identity"
  \/ s.do = "return"
SimpleList(o, l, rows) == \E S : l \in Seq(S) /\ \A s \in S : SimpleOk(o, s, rows)
StepOk(o, s, rows) ==
  \/ SimpleOk(o, s, rows)
  \/ s.do = "catch" /\ SimpleList(o, s.steps, rows) /\ (Presented(o) # {} => s.steps = <<>>)
ListOk(o, l, rows) == \E S : l \in Seq(S) /\ \A s \in S : StepOk(o, s, rows)

----------------------------------------------------------------------------
\* Lists

LEMMA ListIs ==
  ASSUME NEW o, NEW rows, NEW l, NEW S, l \in Seq(S), \A s \in S : StepOk(o, s, rows)
  PROVE  ListOk(o, l, rows)
BY DEF ListOk

LEMMA SimpleIs ==
  ASSUME NEW o, NEW rows, NEW l, NEW S, l \in Seq(S), \A s \in S : SimpleOk(o, s, rows)
  PROVE  SimpleList(o, l, rows)
BY DEF SimpleList

LEMMA ListEmpty ==
  ASSUME NEW o, NEW rows
  PROVE  ListOk(o, <<>>, rows) /\ SimpleList(o, <<>>, rows)
<1>. DEFINE S == {}
<1>1. <<>> \in Seq(S) /\ \A s \in S : StepOk(o, s, rows) /\ SimpleOk(o, s, rows)
  OBVIOUS
<1>. HIDE DEF S
<1>2. ListOk(o, <<>>, rows)
  BY <1>1, ListIs
<1>3. SimpleList(o, <<>>, rows)
  BY <1>1, SimpleIs
<1>. QED
  BY <1>2, <1>3

LEMMA ListOf ==
  ASSUME NEW o, NEW rows, NEW a, StepOk(o, a, rows)
  PROVE  ListOk(o, <<a>>, rows)
<1>. DEFINE S == {a}
<1>1. <<a>> \in Seq(S)
  OBVIOUS
<1>2. \A s \in S : StepOk(o, s, rows)
  OBVIOUS
<1>. HIDE DEF S
<1>. QED
  BY <1>1, <1>2, ListIs

LEMMA SimpleOf ==
  ASSUME NEW o, NEW rows, NEW a, SimpleOk(o, a, rows)
  PROVE  SimpleList(o, <<a>>, rows)
<1>. DEFINE S == {a}
<1>1. <<a>> \in Seq(S)
  OBVIOUS
<1>2. \A s \in S : SimpleOk(o, s, rows)
  OBVIOUS
<1>. HIDE DEF S
<1>. QED
  BY <1>1, <1>2, SimpleIs

LEMMA ListOfTwo ==
  ASSUME NEW o, NEW rows, NEW a, NEW b, StepOk(o, a, rows), StepOk(o, b, rows)
  PROVE  ListOk(o, <<a, b>>, rows)
<1>. DEFINE S == {a, b}
<1>1. <<a, b>> \in Seq(S)
  OBVIOUS
<1>2. \A s \in S : StepOk(o, s, rows)
  OBVIOUS
<1>. HIDE DEF S
<1>. QED
  BY <1>1, <1>2, ListIs

LEMMA SimpleOfTwo ==
  ASSUME NEW o, NEW rows, NEW a, NEW b, SimpleOk(o, a, rows), SimpleOk(o, b, rows)
  PROVE  SimpleList(o, <<a, b>>, rows)
<1>. DEFINE S == {a, b}
<1>1. <<a, b>> \in Seq(S)
  OBVIOUS
<1>2. \A s \in S : SimpleOk(o, s, rows)
  OBVIOUS
<1>. HIDE DEF S
<1>. QED
  BY <1>1, <1>2, SimpleIs

LEMMA ListOfThree ==
  ASSUME NEW o, NEW rows, NEW a, NEW b, NEW d,
         StepOk(o, a, rows), StepOk(o, b, rows), StepOk(o, d, rows)
  PROVE  ListOk(o, <<a, b, d>>, rows)
<1>. DEFINE S == {a, b, d}
<1>1. <<a, b, d>> \in Seq(S)
  OBVIOUS
<1>2. \A s \in S : StepOk(o, s, rows)
  OBVIOUS
<1>. HIDE DEF S
<1>. QED
  BY <1>1, <1>2, ListIs

LEMMA ListConcat ==
  ASSUME NEW o, NEW rows, NEW l, NEW m, ListOk(o, l, rows), ListOk(o, m, rows)
  PROVE  ListOk(o, l \o m, rows)
<1>1. PICK S : l \in Seq(S) /\ \A s \in S : StepOk(o, s, rows)
  BY DEF ListOk
<1>2. PICK T : m \in Seq(T) /\ \A s \in T : StepOk(o, s, rows)
  BY DEF ListOk
<1>3. l \o m \in Seq(S \cup T)
  <2>1. l \in Seq(S \cup T) /\ m \in Seq(S \cup T)
    BY <1>1, <1>2
  <2>. QED
    BY <2>1
<1>. QED
  BY <1>1, <1>2, <1>3 DEF ListOk

LEMMA ListWhen ==
  ASSUME NEW o, NEW rows, NEW b, NEW l, b => ListOk(o, l, rows)
  PROVE  ListOk(o, When(b, l), rows)
BY ListEmpty DEF When

\* A first step, and the rest.
LEMMA ListParts ==
  ASSUME NEW o, NEW rows, NEW l, ListOk(o, l, rows), l # <<>>
  PROVE  StepOk(o, Head(l), rows) /\ ListOk(o, Tail(l), rows)
<1>1. PICK S : l \in Seq(S) /\ \A s \in S : StepOk(o, s, rows)
  BY DEF ListOk
<1>2. Head(l) \in S /\ Tail(l) \in Seq(S)
  BY <1>1
<1>. QED
  BY <1>1, <1>2 DEF ListOk

LEMMA ListAt ==
  ASSUME NEW o, NEW rows, NEW l, ListOk(o, l, rows), NEW i \in DOMAIN l
  PROVE  StepOk(o, l[i], rows)
BY DEF ListOk

LEMMA SimpleIsList ==
  ASSUME NEW o, NEW rows, NEW l, SimpleList(o, l, rows)
  PROVE  ListOk(o, l, rows)
BY DEF SimpleList, ListOk, StepOk

\* What a statement does to the rows may make a step lawful, not unlawful.
LEMMA ListStays ==
  ASSUME NEW o, NEW rows, NEW new, NEW l, ListOk(o, l, rows),
         \A u : Lawful(o, u, rows) => Lawful(o, u, new)
  PROVE  ListOk(o, l, new)
<1>1. \A op : CallOk(o, op, rows) => CallOk(o, op, new)
  BY DEF CallOk
<1>2. \A op : WhereOk(o, op, rows) => WhereOk(o, op, new)
  BY DEF WhereOk
<1>3. \A s : SimpleOk(o, s, rows) => SimpleOk(o, s, new)
  BY <1>1, <1>2 DEF SimpleOk
<1>4. \A m : SimpleList(o, m, rows) => SimpleList(o, m, new)
  BY <1>3 DEF SimpleList
<1>5. \A s : StepOk(o, s, rows) => StepOk(o, s, new)
  BY <1>3, <1>4 DEF StepOk
<1>. QED
  BY <1>5 DEF ListOk

----------------------------------------------------------------------------
\* Steps

LEMMA WhereStep ==
  ASSUME NEW o, NEW rows, NEW op, WhereOk(o, op, rows)
  PROVE  SimpleOk(o, Where(op), rows) /\ StepOk(o, Where(op), rows)
BY DEF Where, SimpleOk, StepOk

LEMMA CallStep ==
  ASSUME NEW o, NEW rows, NEW op, CallOk(o, op, rows)
  PROVE  SimpleOk(o, Call(op), rows) /\ StepOk(o, Call(op), rows)
BY DEF Call, SimpleOk, StepOk

LEMMA ReturnStep ==
  ASSUME NEW o, NEW rows
  PROVE  SimpleOk(o, Return, rows) /\ StepOk(o, Return, rows)
BY DEF Return, SimpleOk, StepOk

LEMMA ReturnList ==
  ASSUME NEW o, NEW rows
  PROVE  ListOk(o, <<Return>>, rows)
BY ReturnStep, ListOf

LEMMA CatchStep ==
  ASSUME NEW o, NEW rows, NEW l, SimpleList(o, l, rows), Presented(o) # {} => l = <<>>
  PROVE  StepOk(o, Catch(l), rows)
BY DEF Catch, StepOk

\* Rows that are neither tokens nor settings nor apps.
Plain == {"session", "user", "passkey", "credential", "api", "identity", "jwt", "member"}

LEMMA SaveStep ==
  ASSUME NEW o, NEW rows, NEW what \in Plain, NEW x, NEW row
  PROVE  StepOk(o, SaveRow(what, x, row), rows)
<1>1. WhereOk(o, <<"put", what, x, row>>, rows)
  BY DEF WhereOk, Plain
<1>. QED
  BY <1>1, WhereStep DEF SaveRow

LEMMA TryStep ==
  ASSUME NEW o, NEW rows, NEW what \in Plain, NEW x, NEW row
  PROVE  /\ SimpleOk(o, Where(<<"try", what, x, row>>), rows)
         /\ StepOk(o, Where(<<"try", what, x, row>>), rows)
<1>1. WhereOk(o, <<"try", what, x, row>>, rows)
  BY DEF WhereOk, Plain
<1>. QED
  BY <1>1, WhereStep

LEMMA SessionStep ==
  ASSUME NEW o, NEW rows, NEW b, NEW s
  PROVE  StepOk(o, SaveSession(b, s), rows)
<1>1. "session" \in Plain
  BY DEF Plain
<1>. QED
  BY <1>1, SaveStep DEF SaveSession

LEMMA CreateStep ==
  ASSUME NEW o, NEW rows, NEW what \in Plain \cup {"token", "pending"}, NEW x, NEW row
  PROVE  StepOk(o, CreateRow(what, x, row), rows)
<1>1. WhereOk(o, <<"create", what, x, row>>, rows)
  BY DEF WhereOk, Plain
<1>. QED
  BY <1>1, WhereStep DEF CreateRow

LEMMA DeleteStep ==
  ASSUME NEW o, NEW rows, NEW what \in Plain \cup {"totp"}, NEW x
  PROVE  StepOk(o, DeleteRow(what, x), rows)
<1>1. WhereOk(o, <<"delete", what, x>>, rows)
  BY DEF WhereOk, Plain
<1>. QED
  BY <1>1, WhereStep DEF DeleteRow

LEMMA SetStep ==
  ASSUME NEW o, NEW rows, NEW x, NEW columns
  PROVE  StepOk(o, SetUser(x, columns), rows)
<1>1. WhereOk(o, <<"set", x, columns>>, rows)
  BY DEF WhereOk
<1>. QED
  BY <1>1, WhereStep DEF SetUser

LEMMA EnterStep ==
  ASSUME NEW o, NEW rows, NEW b, NEW s, NEW u, Lawful(o, u, rows)
  PROVE  /\ StepOk(o, Where(<<"enter", b, s, u>>), rows)
         /\ StepOk(o, Where(<<"tryEnter", b, s, u>>), rows)
<1>1. WhereOk(o, <<"enter", b, s, u>>, rows) /\ WhereOk(o, <<"tryEnter", b, s, u>>, rows)
  BY DEF WhereOk
<1>. QED
  BY <1>1, WhereStep

LEMMA PartStep ==
  ASSUME NEW o, NEW rows, NEW op, op[1] \in Part
  PROVE  StepOk(o, Call(op), rows)
BY CallStep DEF CallOk

----------------------------------------------------------------------------
\* Parts of handlers

LEMMA RegisterOk ==
  ASSUME NEW o, NEW rows, NEW u
  PROVE  ListOk(o, Register(u), rows)
<1>1. WhereOk(o, <<"register", u>>, rows)
  BY DEF WhereOk
<1>. QED
  BY <1>1, WhereStep, ListOf DEF Register

LEMMA CompleteLoginOk ==
  ASSUME NEW o, NEW rows, NEW b, NEW s, NEW u, Lawful(o, u, rows)
  PROVE  ListOk(o, CompleteLogin(b, s, u), rows)
<1>1. ListOk(o, <<Where(<<"enter", b, [s EXCEPT !.user = u], u>>)>>, rows)
  BY EnterStep, ListOf
<1>2. <<"exists", u>>[1] \in Part
  BY DEF Part
<1>3. ListOk(o, <<Call(<<"exists", u>>)>>, rows)
  BY <1>2, PartStep, ListOf
<1>4. ListOk(o, <<Where(<<"enter", b, [s EXCEPT !.user = u], u>>)>> \o Register(u), rows)
  BY <1>1, RegisterOk, ListConcat
<1>. QED
  BY <1>3, <1>4, ListConcat DEF CompleteLogin

LEMMA PendingOk ==
  ASSUME NEW o, NEW rows, NEW b, NEW s, NEW u, NEW context
  PROVE  ListOk(o, SetPendingMFA(b, s, u, context), rows) /\ ListOk(o, ClearPendingMFA(b, s), rows)
<1>1. "session" \in Plain
  BY DEF Plain
<1>2. ListOk(o, SetPendingMFA(b, s, u, context), rows)
  BY SessionStep, ListOfTwo DEF SetPendingMFA
<1>3. ListOk(o, ClearPendingMFA(b, s), rows)
  BY <1>1, TryStep, ListOfTwo DEF ClearPendingMFA
<1>. QED
  BY <1>2, <1>3

LEMMA FinishPendingOk ==
  ASSUME NEW o, NEW rows, NEW b, NEW s, Lawful(o, s.pending, rows)
  PROVE  ListOk(o, FinishPendingLogin(b, s), rows)
BY CompleteLoginOk, PendingOk, ListConcat DEF FinishPendingLogin

\* Whoever has a second factor only gets as far as being asked for it.
LEMMA NoApp ==
  ASSUME NEW o, NEW rows, NEW u, ~UserRequiresMFA(u, rows)
  PROVE  Lawful(o, u, rows)
BY DEF UserRequiresMFA, Lawful, AppIn

LEMMA EnterSiteOk ==
  ASSUME NEW o, NEW rows, NEW b, NEW s, NEW u, NEW context
  PROVE  ListOk(o, EnterSite(b, s, u, context, rows), rows)
BY NoApp, PendingOk, CompleteLoginOk DEF EnterSite

LEMMA EnterAdminOk ==
  ASSUME NEW o, NEW rows, NEW b, NEW s, NEW u
  PROVE  ListOk(o, EnterAdmin(b, s, u, rows), rows)
<1>1. CASE UserRequiresMFA(u, rows)
  BY <1>1, PendingOk DEF EnterAdmin
<1>2. CASE ~UserRequiresMFA(u, rows)
  <2>1. ListOk(o, <<Where(<<"tryEnter", b, [s EXCEPT !.user = u], u>>)>>, rows)
    BY <1>2, NoApp, EnterStep, ListOf
  <2>. QED
    BY <1>2, <2>1, RegisterOk, ListConcat DEF EnterAdmin
<1>. QED
  BY <1>1, <1>2

LEMMA VerifyCodeOk ==
  ASSUME NEW o, NEW rows, NEW b, NEW s, NEW code, o[1] = "mfaChallenge", code = o[3]
  PROVE  ListOk(o, VerifyCode(b, s, code, rows), rows)
<1>1. VerifyUserTOTP(s.pending, code, rows) => Lawful(o, s.pending, rows)
  BY DEF VerifyUserTOTP, Lawful, Brought
<1>. QED
  BY <1>1, FinishPendingOk, ListWhen DEF VerifyCode

LEMMA CeremonyOk ==
  ASSUME NEW o, NEW rows, NEW b, NEW s, NEW kind, NEW u
  PROVE  ListOk(o, BeginCeremony(b, s, kind, u), rows)
BY SessionStep, ListOf DEF BeginCeremony

LEMMA FinishingOk ==
  ASSUME NEW o, NEW rows, NEW b, NEW s, NEW steps, NEW rest, Presented(o) = {},
         ListOk(o, steps, rows), ListOk(o, rest, rows)
  PROVE  ListOk(o, Finishing(b, s, steps, rest), rows)
<1>. DEFINE clear == Where(<<"try", "session", b, [s EXCEPT !.ceremony = None]>>)
<1>1. SimpleOk(o, clear, rows) /\ StepOk(o, clear, rows)
  <2>1. "session" \in Plain
    BY DEF Plain
  <2>. QED
    BY <2>1, TryStep
<1>. HIDE DEF clear
<1>2. StepOk(o, Catch(<<clear, Return>>), rows)
  BY <1>1, ReturnStep, SimpleOfTwo, CatchStep
<1>3. ListOk(o, <<Catch(<<clear, Return>>), clear>>, rows)
  BY <1>1, <1>2, ListOfTwo
<1>4. ListOk(o, steps \o <<Catch(<<clear, Return>>), clear>> \o rest, rows)
  BY <1>3, ListConcat
<1>. QED
  BY <1>4 DEF Finishing, clear

LEMMA AssertionOk ==
  ASSUME NEW o, NEW rows, NEW k, NEW begun, NEW u
  PROVE  ListOk(o, Assertion(k, begun, u, rows), rows)
<1>1. "passkey" \in Plain
  BY DEF Plain
<1>. QED
  BY <1>1, SaveStep, ReturnList, ListOf DEF Assertion

\* A passkey counts as a second factor.
LEMMA PasskeyLawful ==
  ASSUME NEW o, NEW rows, NEW u, o[1] \in {"finishAssertion", "passkeyFinish"}
  PROVE  Lawful(o, u, rows)
BY DEF Lawful, Brought

LEMMA MayEnterOk ==
  ASSUME NEW o, NEW rows, NEW b, NEW s, NEW u, o[1] = "passkeyFinish"
  PROVE  ListOk(o, MayEnter(b, s, u, rows), rows)
BY PasskeyLawful, CompleteLoginOk, ListWhen DEF MayEnter

LEMMA AuthenticateOk ==
  ASSUME NEW o, NEW rows, NEW b, NEW s, NEW name, NEW password, NEW where
  PROVE  ListOk(o, Authenticate(b, s, name, password, where, rows), rows)
<1>1. ASSUME NEW u
      PROVE  ListOk(o, <<Call(<<IF where = "admin" THEN "enterAdmin" ELSE "enterSite", b, s, u, where>>)>>, rows)
  <2>1. <<IF where = "admin" THEN "enterAdmin" ELSE "enterSite", b, s, u, where>>[1] \in Part
    BY DEF Part
  <2>. QED
    BY <2>1, PartStep, ListOf
<1>. QED
  BY <1>1, ListEmpty DEF Authenticate, TheFirst

LEMMA IssueTokenOk ==
  ASSUME NEW o, NEW rows, NEW t, NEW type, NEW u
  PROVE  ListOk(o, IssueToken(t, type, u), rows)
BY CreateStep, ListOf DEF IssueToken

LEMMA EnsureTokenOk ==
  ASSUME NEW o, NEW rows, NEW u, NEW t
  PROVE  ListOk(o, EnsureVerifyToken(u, t, rows), rows)
BY IssueTokenOk, ListWhen DEF EnsureVerifyToken

LEMMA ApiAuthenticateOk ==
  ASSUME NEW o, NEW rows, NEW name, NEW password, NEW t, NEW j
  PROVE  ListOk(o, ApiAuthenticate(name, password, t, j, rows), rows)
<1>1. ASSUME NEW u PROVE ListOk(o, <<Call(<<"apiEnter", u, t, j>>)>>, rows)
  <2>1. <<"apiEnter", u, t, j>>[1] \in Part
    BY DEF Part
  <2>. QED
    BY <2>1, PartStep, ListOf
<1>. QED
  BY <1>1, ListEmpty DEF ApiAuthenticate, TheFirst

LEMMA LoginTokensOk ==
  ASSUME NEW o, NEW rows, NEW u, NEW t, NEW j, o[1] # "apiRefresh" => Lawful(o, u, rows)
  PROVE  ListOk(o, IssueLoginTokens(u, t, j), rows)
<1>1. CallOk(o, <<"issue", u, j>>, rows)
  BY DEF CallOk
<1>2. StepOk(o, Call(<<"issue", u, j>>), rows)
  BY <1>1, CallStep
<1>3. StepOk(o, IssuePending(t, "refresh", u, None), rows)
  BY CreateStep DEF IssuePending
<1>4. StepOk(o, Catch(<<>>), rows)
  BY ListEmpty, CatchStep
<1>. QED
  BY <1>2, <1>3, <1>4, ListOfThree DEF IssueLoginTokens

LEMMA ApiEnterOk ==
  ASSUME NEW o, NEW rows, NEW u, NEW t, NEW j
  PROVE  ListOk(o, ApiEnter(u, t, j, rows), rows)
<1>1. CASE UserRequiresMFA(u, rows)
  BY <1>1, CreateStep, ListOf DEF ApiEnter, IssuePending
<1>2. CASE ~UserRequiresMFA(u, rows)
  BY <1>2, NoApp, RegisterOk, LoginTokensOk, ListConcat DEF ApiEnter
<1>. QED
  BY <1>1, <1>2

LEMMA ExistsStep ==
  ASSUME NEW o, NEW rows, NEW u
  PROVE  ListOk(o, <<Call(<<"exists", u>>)>>, rows)
<1>1. <<"exists", u>>[1] \in Part
  BY DEF Part
<1>. QED
  BY <1>1, PartStep, ListOf

LEMMA ApiCodeOk ==
  ASSUME NEW o, NEW rows, NEW u, NEW code, NEW t, NEW j, o[1] = "apiMFA", code = o[3]
  PROVE  ListOk(o, ApiCode(u, code, t, j, rows), rows)
<1>1. ASSUME VerifyUserTOTP(u, code, rows)
      PROVE  ListOk(o, <<Call(<<"exists", u>>)>> \o Register(u) \o IssueLoginTokens(u, t, j), rows)
  <2>1. Lawful(o, u, rows)
    BY <1>1 DEF VerifyUserTOTP, Lawful, Brought
  <2>2. ListOk(o, IssueLoginTokens(u, t, j), rows)
    BY <2>1, LoginTokensOk
  <2>. QED
    BY <2>2, ExistsStep, RegisterOk, ListConcat
<1>. QED
  BY <1>1, ListWhen DEF ApiCode

LEMMA SaveSecretOk ==
  ASSUME NEW o, NEW rows, NEW secret, NEW prev
  PROVE  ListOk(o, SaveSecret(secret, prev, rows), rows)
<1>1. "api" \in Plain
  BY DEF Plain
<1>. QED
  BY <1>1, SaveStep, ListOf DEF SaveSecret

LEMMA SaveSecretStep ==
  ASSUME NEW o, NEW rows, NEW secret, NEW prev
  PROVE  StepOk(o, Call(<<"saveSecret", secret, prev>>), rows)
<1>1. <<"saveSecret", secret, prev>>[1] \in Part
  BY DEF Part
<1>. QED
  BY <1>1, PartStep

LEMMA IssueOk ==
  ASSUME NEW o, NEW rows, NEW u, NEW j, o[1] # "apiRefresh" => Lawful(o, u, rows)
  PROVE  ListOk(o, Issue(u, j, rows), rows)
<1>1. ASSUME NEW secret PROVE StepOk(o, Where(<<"sign", j, u, secret>>), rows)
  <2>1. WhereOk(o, <<"sign", j, u, secret>>, rows)
    BY DEF WhereOk
  <2>. QED
    BY <2>1, WhereStep
<1>. QED
  BY <1>1, SaveSecretStep, ListOf, ListOfTwo DEF Issue

LEMMA SaveSettingsOk ==
  ASSUME NEW o, NEW rows, NEW data
  PROVE  ListOk(o, SaveSettingsData(data, rows), rows)
<1>1. "api" \in Plain
  BY DEF Plain
<1>2. ASSUME NEW row PROVE StepOk(o, SaveRow("api", "x", row), rows)
  BY <1>1, SaveStep
<1>. QED
  BY <1>2, SaveSecretStep, ListOf, ListOfTwo DEF SaveSettingsData

LEMMA FillProfileOk ==
  ASSUME NEW o, NEW rows, NEW b, NEW s, NEW gu, NEW u, NEW row
  PROVE  ListOk(o, FillProfile(b, s, gu, u, row), rows)
<1>. DEFINE t == [s EXCEPT !.oauth = FALSE]
            back == [t EXCEPT !.back = "frontend"]
            filled == [row EXCEPT !.named = @ \/ gu.named, !.email = IF @ = None THEN gu.email ELSE @]
<1>1. "session" \in Plain /\ "user" \in Plain
  BY DEF Plain
<1>2. ListOk(o, When(filled # row, <<SaveRow("user", u, filled)>>), rows)
  <2>. HIDE DEF filled
  <2>. QED
    BY <1>1, SaveStep, ListOf, ListWhen
<1>3. ListOk(o, When(gu.avatar # None, <<SetUser(u, [sso |-> gu.avatar])>>), rows)
  BY SetStep, ListOf, ListWhen
<1>4. <<"allowed", b, back, u, row, s.back>>[1] \in Part
  BY DEF Part
<1>5. ListOk(o, <<Where(<<"try", "session", b, t>>), Where(<<"try", "session", b, back>>),
                  Call(<<"allowed", b, back, u, row, s.back>>)>>, rows)
  <2>1. StepOk(o, Call(<<"allowed", b, back, u, row, s.back>>), rows)
    BY <1>4, PartStep
  <2>. HIDE DEF t, back
  <2>. QED
    BY <1>1, <2>1, TryStep, ListOfThree
<1>6. ListOk(o, When(filled # row, <<SaveRow("user", u, filled)>>)
                \o When(gu.avatar # None, <<SetUser(u, [sso |-> gu.avatar])>>), rows)
  BY <1>2, <1>3, ListConcat
<1>. QED
  BY <1>5, <1>6, ListConcat DEF FillProfile

LEMMA FindUserOk ==
  ASSUME NEW o, NEW rows, NEW b, NEW s, NEW gu, NEW new
  PROVE  ListOk(o, FindOrCreateOAuthUser(b, s, gu, new, rows), rows)
<1>. DEFINE linked == Of("identity", gu.id, rows)
            found == (CHOOSE r \in linked : TRUE)[3]
<1>1. StepOk(o, Delete(linked), rows)
  <2>1. \A r \in linked : r[1] = "identity"
    BY DEF Of
  <2>2. Delete(linked).do = "statement" /\ Delete(linked).add = {} /\ Delete(linked).drop = linked
    BY DEF Delete, Statement
  <2>. QED
    BY <2>1, <2>2 DEF StepOk, SimpleOk
<1>2. StepOk(o, Call(<<"findMail", b, s, gu, new>>), rows)
  <2>1. <<"findMail", b, s, gu, new>>[1] \in Part
    BY DEF Part
  <2>. QED
    BY <2>1, PartStep
<1>3. ListOk(o, <<Call(<<"findMail", b, s, gu, new>>)>>, rows)
  BY <1>2, ListOf
<1>4. ListOk(o, <<Delete(linked), Call(<<"findMail", b, s, gu, new>>)>>, rows)
  BY <1>1, <1>2, ListOfTwo
<1>5. ListOk(o, FillProfile(b, s, gu, found, The("user", found, rows)), rows)
  BY FillProfileOk
<1>. QED
  BY <1>3, <1>4, <1>5 DEF FindOrCreateOAuthUser

LEMMA FindMailOk ==
  ASSUME NEW o, NEW rows, NEW b, NEW s, NEW gu, NEW new
  PROVE  ListOk(o, FindMail(b, s, gu, new, rows), rows)
<1>1. "user" \in Plain /\ "identity" \in Plain
  BY DEF Plain
<1>2. ASSUME NEW u PROVE ListOk(o, <<CreateRow("identity", gu.id, u)>>, rows)
  BY <1>1, CreateStep, ListOf
<1>3. ASSUME NEW row
      PROVE  ListOk(o, <<SaveRow("user", new, row)>> \o Register(new)
                       \o <<CreateRow("identity", gu.id, new)>> \o FillProfile(b, s, gu, new, row), rows)
  <2>1. ListOk(o, <<SaveRow("user", new, row)>>, rows)
    BY <1>1, SaveStep, ListOf
  <2>. QED
    BY <1>2, <2>1, RegisterOk, FillProfileOk, ListConcat
<1>4. ASSUME NEW r PROVE ListOk(o, <<CreateRow("identity", gu.id, r[2])>> \o FillProfile(b, s, gu, r[2], r[3]), rows)
  BY <1>2, FillProfileOk, ListConcat
<1>. QED
  BY <1>3, <1>4 DEF FindMail

LEMMA AllowedOk ==
  ASSUME NEW o, NEW rows, NEW b, NEW s, NEW u, NEW row, NEW back
  PROVE  ListOk(o, Allowed(b, s, u, row, back, rows), rows)
<1>1. <<"enterSite", b, s, u, back>>[1] \in Part
  BY DEF Part
<1>2. ListOk(o, <<Call(<<"enterSite", b, s, u, back>>)>>, rows)
  BY <1>1, PartStep, ListOf
<1>. QED
  BY <1>2, ListWhen DEF Allowed

LEMMA ExistsOk ==
  ASSUME NEW o, NEW rows, NEW u
  PROVE  ListOk(o, Exists(u, rows), rows)
BY ReturnList, ListWhen DEF Exists

----------------------------------------------------------------------------
\* Handlers

\* A part of a handler comes down to steps that are allowed.
LEMMA PartOk ==
  ASSUME NEW o, NEW rows, NEW c, NEW op, op[1] \in Part
  PROVE  ListOk(o, Plan(op, rows, c), rows)
<1>1. CASE op[1] = "exists"
  <2>1. Plan(op, rows, c) = Exists(op[2], rows)
    BY <1>1 DEF Plan
  <2>. QED
    BY <1>1, <2>1, ExistsOk
<1>2. CASE op[1] = "authenticate"
  <2>1. Plan(op, rows, c) = Authenticate(op[2], op[3], op[4], op[5], op[6], rows)
    BY <1>2 DEF Plan
  <2>. QED
    BY <1>2, <2>1, AuthenticateOk
<1>3. CASE op[1] = "enterSite"
  <2>1. Plan(op, rows, c) = EnterSite(op[2], op[3], op[4], op[5], rows)
    BY <1>3 DEF Plan
  <2>. QED
    BY <1>3, <2>1, EnterSiteOk
<1>4. CASE op[1] = "enterAdmin"
  <2>1. Plan(op, rows, c) = EnterAdmin(op[2], op[3], op[4], rows)
    BY <1>4 DEF Plan
  <2>. QED
    BY <1>4, <2>1, EnterAdminOk
<1>5. CASE op[1] = "assertion"
  <2>1. Plan(op, rows, c) = Assertion(op[2], op[3], op[4], rows)
    BY <1>5 DEF Plan
  <2>. QED
    BY <1>5, <2>1, AssertionOk
<1>6. CASE op[1] = "ensureToken"
  <2>1. Plan(op, rows, c) = EnsureVerifyToken(op[2], op[3], rows)
    BY <1>6 DEF Plan
  <2>. QED
    BY <1>6, <2>1, EnsureTokenOk
<1>7. CASE op[1] = "apiAuthenticate"
  <2>1. Plan(op, rows, c) = ApiAuthenticate(op[2], op[3], op[4], op[5], rows)
    BY <1>7 DEF Plan
  <2>. QED
    BY <1>7, <2>1, ApiAuthenticateOk
<1>8. CASE op[1] = "apiEnter"
  <2>1. Plan(op, rows, c) = ApiEnter(op[2], op[3], op[4], rows)
    BY <1>8 DEF Plan
  <2>. QED
    BY <1>8, <2>1, ApiEnterOk
<1>9. CASE op[1] = "saveSecret"
  <2>1. Plan(op, rows, c) = SaveSecret(op[2], op[3], rows)
    BY <1>9 DEF Plan
  <2>. QED
    BY <1>9, <2>1, SaveSecretOk
<1>10. CASE op[1] = "rotate"
  <2>1. Plan(op, rows, c) = RotateJWTSecret(op[2], rows)
    BY <1>10 DEF Plan
  <2>. QED
    BY <1>10, <2>1, SaveSecretStep, ListOf DEF RotateJWTSecret
<1>11. CASE op[1] = "saveApi"
  <2>1. Plan(op, rows, c) = SaveSettingsData(op[2], rows)
    BY <1>11 DEF Plan
  <2>. QED
    BY <1>11, <2>1, SaveSettingsOk
<1>12. CASE op[1] = "findUser"
  <2>1. Plan(op, rows, c) = FindOrCreateOAuthUser(op[2], op[3], op[4], op[5], rows)
    BY <1>12 DEF Plan
  <2>. QED
    BY <1>12, <2>1, FindUserOk
<1>13. CASE op[1] = "findMail"
  <2>1. Plan(op, rows, c) = FindMail(op[2], op[3], op[4], op[5], rows)
    BY <1>13 DEF Plan
  <2>. QED
    BY <1>13, <2>1, FindMailOk
<1>14. CASE op[1] = "allowed"
  <2>1. Plan(op, rows, c) = Allowed(op[2], op[3], op[4], op[5], op[6], rows)
    BY <1>14 DEF Plan
  <2>. QED
    BY <1>14, <2>1, AllowedOk
<1>. QED
  BY <1>1, <1>2, <1>3, <1>4, <1>5, <1>6, <1>7, <1>8, <1>9, <1>10, <1>11, <1>12, <1>13, <1>14 DEF Part

\* So does one that only certain requests get to.
LEMMA GuardedPartOk ==
  ASSUME NEW o, NEW rows, NEW c, NEW op, CallOk(o, op, rows), op # o
  PROVE  ListOk(o, Plan(op, rows, c), rows)
<1>1. CASE op[1] \in Part
  BY <1>1, PartOk
<1>2. CASE op[1] = "verifyCode" /\ o[1] = "mfaChallenge" /\ op[4] = o[3]
  <2>1. Plan(op, rows, c) = VerifyCode(op[2], op[3], op[4], rows)
    BY <1>2 DEF Plan
  <2>. QED
    BY <1>2, <2>1, VerifyCodeOk
<1>3. CASE op[1] = "apiCode" /\ o[1] = "apiMFA" /\ op[3] = o[3]
  <2>1. Plan(op, rows, c) = ApiCode(op[2], op[3], op[4], op[5], rows)
    BY <1>3 DEF Plan
  <2>. QED
    BY <1>3, <2>1, ApiCodeOk
<1>4. CASE op[1] = "mayEnter" /\ o[1] = "passkeyFinish"
  <2>1. Plan(op, rows, c) = MayEnter(op[2], op[3], op[4], rows)
    BY <1>4 DEF Plan
  <2>. QED
    BY <1>4, <2>1, MayEnterOk
<1>5. CASE op[1] = "issue" /\ (o[1] # "apiRefresh" => Lawful(o, op[2], rows))
  <2>1. Plan(op, rows, c) = Issue(op[2], op[3], rows)
    BY <1>5 DEF Plan
  <2>. QED
    BY <1>5, <2>1, IssueOk
<1>. QED
  BY <1>1, <1>2, <1>3, <1>4, <1>5 DEF CallOk

LEMMA PartList ==
  ASSUME NEW o, NEW rows, NEW op, op[1] \in Part
  PROVE  ListOk(o, <<Call(op)>>, rows)
BY PartStep, ListOf

LEMMA LoginOk ==
  ASSUME NEW o, NEW rows, NEW b, NEW name, NEW password, NEW where
  PROVE  ListOk(o, Login(b, name, password, where, rows), rows)
<1>1. ASSUME NEW s PROVE <<"authenticate", b, s, name, password, where>>[1] \in Part
  BY DEF Part
<1>2. ListOk(o, <<Call(<<"authenticate", b, SessionOf(b, rows), name, password, where>>)>>, rows)
  BY <1>1, PartList
<1>. QED
  BY <1>2, ListWhen DEF Login

LEMMA MfaChallengeOk ==
  ASSUME NEW o, NEW rows, NEW b, NEW code, o[1] = "mfaChallenge", code = o[3]
  PROVE  ListOk(o, MfaChallenge(b, code, rows), rows)
<1>1. ASSUME NEW s PROVE ListOk(o, <<Call(<<"verifyCode", b, s, code>>)>>, rows)
  <2>1. CallOk(o, <<"verifyCode", b, s, code>>, rows)
    BY DEF CallOk
  <2>. QED
    BY <2>1, CallStep, ListOf
<1>. QED
  BY <1>1, ListWhen DEF MfaChallenge

LEMMA PasskeyChallengeOk ==
  ASSUME NEW o, NEW rows, NEW b
  PROVE  ListOk(o, PasskeyChallenge(b, rows), rows) /\ ListOk(o, PasskeyBegin(b, rows), rows)
BY CeremonyOk, ListWhen DEF PasskeyChallenge, PasskeyBegin

LEMMA AssertionStep ==
  ASSUME NEW o, NEW rows, NEW k, NEW begun, NEW u
  PROVE  ListOk(o, <<Call(<<"assertion", k, begun, u>>)>>, rows)
<1>1. <<"assertion", k, begun, u>>[1] \in Part
  BY DEF Part
<1>. QED
  BY <1>1, PartList

LEMMA FinishAssertionOk ==
  ASSUME NEW o, NEW rows, NEW b, NEW k, o[1] = "finishAssertion"
  PROVE  ListOk(o, FinishAssertion(b, k, rows), rows)
<1>1. Presented(o) = {}
  BY DEF Presented
<1>2. ASSUME NEW s, NEW d, NEW begun
      PROVE  ListOk(o, Finishing(b, s, <<Call(<<"assertion", k, begun, s.pending>>)>>, FinishPendingLogin(b, d)), rows)
  <2>1. ListOk(o, FinishPendingLogin(b, d), rows)
    BY PasskeyLawful, FinishPendingOk
  <2>. QED
    BY <1>1, <2>1, AssertionStep, FinishingOk
<1>. QED
  BY <1>2, ListWhen DEF FinishAssertion

LEMMA PasskeyFinishOk ==
  ASSUME NEW o, NEW rows, NEW b, NEW k, NEW u, o[1] = "passkeyFinish"
  PROVE  ListOk(o, PasskeyFinish(b, k, u, rows), rows)
<1>1. Presented(o) = {}
  BY DEF Presented
<1>2. ASSUME NEW s PROVE ListOk(o, <<Call(<<"mayEnter", b, s, u>>)>>, rows)
  <2>1. CallOk(o, <<"mayEnter", b, s, u>>, rows)
    BY DEF CallOk
  <2>. QED
    BY <2>1, CallStep, ListOf
<1>3. ASSUME NEW s, NEW d, NEW begun
      PROVE  ListOk(o, Finishing(b, s, <<Call(<<"assertion", k, begun, u>>)>>, <<Call(<<"mayEnter", b, d, u>>)>>), rows)
  BY <1>1, <1>2, AssertionStep, FinishingOk
<1>. QED
  BY <1>3, ListWhen DEF PasskeyFinish

LEMMA RegisterPasskeyOk ==
  ASSUME NEW o, NEW rows, NEW b, NEW step, NEW k, o[1] = "securityPasskey"
  PROVE  ListOk(o, RegisterPasskey(b, step, k, rows), rows)
<1>. DEFINE s == SessionOf(b, rows)
            finish == <<IF s.ceremony = <<"register", s.user>> THEN CreateRow("passkey", k, s.user) ELSE Return>>
<1>1. Presented(o) = {}
  BY DEF Presented
<1>2. "passkey" \in Plain
  BY DEF Plain
<1>3. ListOk(o, BeginCeremony(b, s, "register", s.user), rows)
  BY CeremonyOk
<1>4. ListOk(o, finish, rows)
  BY <1>2, CreateStep, ReturnStep, ListOf
<1>5. ListOk(o, Finishing(b, s, finish, <<>>), rows)
  BY <1>1, <1>4, ListEmpty, FinishingOk
<1>6. ListOk(o, <<DeleteRow("passkey", k)>>, rows)
  BY <1>2, DeleteStep, ListOf
<1>. QED
  BY <1>3, <1>5, <1>6, ListWhen DEF RegisterPasskey

\* Only where somebody may get an app.
LEMMA AppStep ==
  ASSUME NEW o, NEW rows, NEW u, NEW secret, ~Lasting
  PROVE  StepOk(o, SaveRow("totp", u, secret), rows)
<1>1. WhereOk(o, <<"put", "totp", u, secret>>, rows)
  BY DEF WhereOk
<1>. QED
  BY <1>1, WhereStep DEF SaveRow

LEMMA TotpOk ==
  ASSUME NEW o, NEW rows, NEW b, NEW code
  PROVE  /\ ListOk(o, TotpBegin(b, code, rows), rows)
         /\ ~Lasting => ListOk(o, TotpConfirm(b, code, rows), rows)
<1>1. "session" \in Plain
  BY DEF Plain
<1>2. ListOk(o, TotpBegin(b, code, rows), rows)
  BY SessionStep, ListOf, ListWhen DEF TotpBegin
<1>3. ASSUME ~Lasting PROVE ListOk(o, TotpConfirm(b, code, rows), rows)
  BY <1>1, <1>3, AppStep, TryStep, ListOfTwo, ListWhen DEF TotpConfirm
<1>. QED
  BY <1>2, <1>3

LEMMA TotpDisableOk ==
  ASSUME NEW o, NEW rows, NEW actor, NEW code
  PROVE  ListOk(o, TotpDisable(actor, code, rows), rows)
<1>1. "session" \in Plain
  BY DEF Plain
<1>2. ASSUME NEW u PROVE ListOk(o, <<DeleteRow("totp", u)>>, rows)
  BY DeleteStep, ListOf
<1>3. ASSUME NEW t, NEW when PROVE ListOk(o, When(when, <<Where(<<"try", "session", actor[2], t>>)>>), rows)
  BY <1>1, TryStep, ListOf, ListWhen
<1>4. ASSUME NEW u, NEW t, NEW when
      PROVE  ListOk(o, <<DeleteRow("totp", u)>> \o When(when, <<Where(<<"try", "session", actor[2], t>>)>>), rows)
  BY <1>2, <1>3, ListConcat
<1>. QED
  BY <1>4, ListWhen DEF TotpDisable

LEMMA ConsumeOk ==
  ASSUME NEW o, NEW rows, NEW t, NEW type
  PROVE  ListOk(o, ConsumeToken(t, type, rows), rows) /\ ListOk(o, ConsumePending(t, type, rows), rows)
<1>1. ASSUME NEW u PROVE StepOk(o, SaveRow("token", t, [type |-> type, user |-> u, used |-> TRUE]), rows)
  <2>1. WhereOk(o, <<"put", "token", t, [type |-> type, user |-> u, used |-> TRUE]>>, rows)
    BY DEF WhereOk
  <2>. QED
    BY <2>1, WhereStep DEF SaveRow
<1>2. StepOk(o, Where(<<"spend", t>>), rows)
  <2>1. WhereOk(o, <<"spend", t>>, rows)
    BY DEF WhereOk
  <2>. QED
    BY <2>1, WhereStep
<1>3. ListOk(o, ConsumeToken(t, type, rows), rows)
  BY <1>1, ReturnList, ListOf DEF ConsumeToken
<1>4. ListOk(o, ConsumePending(t, type, rows), rows)
  BY <1>2, ReturnList, ListOf DEF ConsumePending
<1>. QED
  BY <1>3, <1>4

LEMMA RedeemOk ==
  ASSUME NEW o, NEW rows, NEW t, NEW type, NEW columns
  PROVE  ListOk(o, Redeem(t, type, columns, rows), rows)
BY ConsumeOk, SetStep, ListOf, ListWhen, ListConcat DEF Redeem

LEMMA ResetRequestOk ==
  ASSUME NEW o, NEW rows, NEW where, NEW email, NEW t
  PROVE  ListOk(o, ResetRequest(where, email, t, rows), rows)
BY IssueTokenOk, ListEmpty DEF ResetRequest, TheFirst

LEMMA VerifyResendOk ==
  ASSUME NEW o, NEW rows, NEW email, NEW t
  PROVE  ListOk(o, VerifyResend(email, t, rows), rows)
<1>1. ASSUME NEW u PROVE ListOk(o, <<Call(<<"ensureToken", u, t>>)>>, rows)
  <2>1. <<"ensureToken", u, t>>[1] \in Part
    BY DEF Part
  <2>. QED
    BY <2>1, PartList
<1>. QED
  BY <1>1, ListEmpty DEF VerifyResend, TheFirst

LEMMA ApiLoginOk ==
  ASSUME NEW o, NEW rows, NEW name, NEW password, NEW t, NEW j
  PROVE  ListOk(o, ApiLogin(name, password, t, j, rows), rows)
<1>1. <<"apiAuthenticate", name, password, t, j>>[1] \in Part
  BY DEF Part
<1>2. ListOk(o, <<Call(<<"apiAuthenticate", name, password, t, j>>)>>, rows)
  BY <1>1, PartList
<1>. QED
  BY <1>2, ListWhen DEF ApiLogin

LEMMA ApiMFAOk ==
  ASSUME NEW o, NEW rows, NEW t, NEW code, NEW t2, NEW j, o[1] = "apiMFA", code = o[3]
  PROVE  ListOk(o, ApiMFA(t, code, t2, j, rows), rows)
<1>1. ASSUME NEW u PROVE ListOk(o, <<Call(<<"apiCode", u, code, t2, j>>)>>, rows)
  <2>1. CallOk(o, <<"apiCode", u, code, t2, j>>, rows)
    BY DEF CallOk
  <2>. QED
    BY <2>1, CallStep, ListOf
<1>. QED
  BY <1>1, ConsumeOk, ListWhen, ListConcat DEF ApiMFA

LEMMA ApiRefreshOk ==
  ASSUME NEW o, NEW rows, NEW t, NEW t2, NEW j, o[1] = "apiRefresh"
  PROVE  ListOk(o, ApiRefresh(t, t2, j, rows), rows)
<1>1. ASSUME NEW u PROVE ListOk(o, <<Call(<<"exists", u>>)>> \o IssueLoginTokens(u, t2, j), rows)
  BY ExistsStep, LoginTokensOk, ListConcat
<1>. QED
  BY <1>1, ConsumeOk, ListWhen, ListConcat DEF ApiRefresh

LEMMA ApiSettingsOk ==
  ASSUME NEW o, NEW rows, NEW rotate, NEW secret, o[1] = "apiSettings"
  PROVE  ListOk(o, ApiSettings(rotate, secret, rows), rows)
<1>. DEFINE save == <<Call(<<"saveApi", The("api", "x", rows)>>)>>
<1>1. Presented(o) = {}
  BY DEF Presented
<1>2. SimpleList(o, save, rows) /\ ListOk(o, save, rows)
  <2>1. <<"saveApi", The("api", "x", rows)>>[1] \in Part
    BY DEF Part
  <2>2. SimpleOk(o, Call(<<"saveApi", The("api", "x", rows)>>), rows)
    BY <2>1, CallStep DEF CallOk
  <2>. QED
    BY <2>2, SimpleOf, SimpleIsList
<1>. HIDE DEF save
<1>3. StepOk(o, Catch(save), rows)
  BY <1>1, <1>2, CatchStep
<1>4. StepOk(o, Call(<<"rotate", secret>>), rows)
  <2>1. <<"rotate", secret>>[1] \in Part
    BY DEF Part
  <2>. QED
    BY <2>1, PartStep
<1>5. ListOk(o, When(rotate, <<Call(<<"rotate", secret>>), Catch(save)>>) \o save, rows)
  BY <1>2, <1>3, <1>4, ListOfTwo, ListWhen, ListConcat
<1>. QED
  BY <1>5 DEF ApiSettings, save

LEMMA ApiTotpOk ==
  ASSUME NEW o, NEW rows, NEW j, NEW t, NEW code
  PROVE  /\ ListOk(o, ApiTotpBegin(j, code, t, rows), rows)
         /\ ~Lasting => ListOk(o, ApiTotpConfirm(j, t, code, rows), rows)
<1>1. ListOk(o, ApiTotpBegin(j, code, t, rows), rows)
  BY CreateStep, ListOf, ListWhen DEF ApiTotpBegin, IssuePending
<1>2. ASSUME ~Lasting PROVE ListOk(o, ApiTotpConfirm(j, t, code, rows), rows)
  <2>1. ASSUME NEW u, NEW when PROVE ListOk(o, When(when, <<SaveRow("totp", u, code)>>), rows)
    BY <1>2, AppStep, ListOf, ListWhen
  <2>. QED
    BY <2>1, ConsumeOk, ListWhen, ListConcat DEF ApiTotpConfirm
<1>. QED
  BY <1>1, <1>2

LEMMA CredentialOk ==
  ASSUME NEW o, NEW rows, NEW x, NEW status, NEW key
  PROVE  /\ ListOk(o, CredentialForm(x, status, key, rows), rows)
         /\ ListOk(o, IssueCredential(x, key), rows)
         /\ ListOk(o, <<DeleteRow("credential", x)>>, rows)
<1>1. "credential" \in Plain
  BY DEF Plain
<1>2. ASSUME NEW row PROVE ListOk(o, <<SaveRow("credential", x, row)>>, rows)
  BY <1>1, SaveStep, ListOf
<1>3. ListOk(o, CredentialForm(x, status, key, rows), rows)
  BY <1>2, ReturnList DEF CredentialForm
<1>4. ListOk(o, IssueCredential(x, key), rows)
  BY <1>1, CreateStep, ListOf DEF IssueCredential
<1>5. ListOk(o, <<DeleteRow("credential", x)>>, rows)
  BY <1>1, DeleteStep, ListOf
<1>. QED
  BY <1>3, <1>4, <1>5

LEMMA OAuthOk ==
  ASSUME NEW o, NEW rows, NEW b, NEW back, NEW gu, NEW new
  PROVE  ListOk(o, BeginOAuth(b, back, rows), rows) /\ ListOk(o, OauthCallback(b, gu, new, rows), rows)
<1>1. "session" \in Plain
  BY DEF Plain
<1>2. ListOk(o, BeginOAuth(b, back, rows), rows)
  BY <1>1, SessionStep, TryStep, ListOfTwo, ListWhen DEF BeginOAuth
<1>3. ASSUME NEW s PROVE ListOk(o, <<Call(<<"findUser", b, s, gu, new>>)>>, rows)
  <2>1. <<"findUser", b, s, gu, new>>[1] \in Part
    BY DEF Part
  <2>. QED
    BY <2>1, PartList
<1>4. ListOk(o, OauthCallback(b, gu, new, rows), rows)
  BY <1>3, ListWhen DEF OauthCallback
<1>. QED
  BY <1>2, <1>4

LEMMA ProfileOk ==
  ASSUME NEW o, NEW rows, NEW actor, NEW x, NEW y, NEW z
  PROVE  /\ ListOk(o, UpdateProfileIdentity(actor, x, y, z, rows), rows)
         /\ ListOk(o, UpdatePassword(actor, x, y, rows), rows)
         /\ ListOk(o, Avatar(actor, x, rows), rows)
<1>1. ListOk(o, UpdateProfileIdentity(actor, x, y, z, rows), rows)
  BY SetStep, ListOfTwo, ListWhen DEF UpdateProfileIdentity
<1>2. ListOk(o, UpdatePassword(actor, x, y, rows), rows)
  BY SetStep, ListOf, ListWhen DEF UpdatePassword
<1>3. ListOk(o, Avatar(actor, x, rows), rows)
  BY SetStep, ListOf, ListWhen DEF Avatar
<1>. QED
  BY <1>1, <1>2, <1>3

LEMMA AccountOk ==
  ASSUME NEW o, NEW rows, NEW u, NEW row, NEW t
  PROVE  /\ ListOk(o, CreateLocalUser(u, row), rows)
         /\ ListOk(o, UserForm(u, row, t, rows), rows)
         /\ ListOk(o, UserDelete(u), rows)
<1>1. "user" \in Plain /\ "member" \in Plain
  BY DEF Plain
<1>2. ASSUME NEW r PROVE ListOk(o, <<SaveRow("user", u, r)>>, rows)
  BY <1>1, SaveStep, ListOf
<1>3. ListOk(o, CreateLocalUser(u, row), rows)
  BY <1>2, RegisterOk, ListConcat DEF CreateLocalUser
<1>4. <<"ensureToken", u, t>>[1] \in Part
  BY DEF Part
<1>5. ListOk(o, <<Call(<<"ensureToken", u, t>>)>>, rows)
  BY <1>4, PartList
<1>6. ListOk(o, UserForm(u, row, t, rows), rows)
  BY <1>2, <1>5, ListWhen, ListConcat DEF UserForm
<1>7. StepOk(o, Where(<<"unlink", u>>), rows)
  <2>1. WhereOk(o, <<"unlink", u>>, rows)
    BY DEF WhereOk
  <2>. QED
    BY <2>1, WhereStep
<1>8. ListOk(o, UserDelete(u), rows)
  BY <1>1, <1>7, DeleteStep, ListOfThree DEF UserDelete
<1>. QED
  BY <1>3, <1>6, <1>8

LEMMA SettingsOk ==
  ASSUME NEW o, NEW rows, NEW columns,
         Lasting => SettingsOn(rows) /\ "totp" \notin DOMAIN columns
  PROVE  ListOk(o, <<SaveRow("settings", "general", Over(columns, Setting(rows)))>>, rows)
<1>. DEFINE new == Over(columns, Setting(rows))
<1>1. Lasting => "totp" \in DOMAIN new /\ new.totp
  <2>. SUFFICES ASSUME Lasting PROVE "totp" \in DOMAIN new /\ new.totp
    OBVIOUS
  <2>1. "totp" \in DOMAIN Setting(rows) /\ Setting(rows).totp
    BY DEF SettingsOn, Setting, The
  <2>. QED
    BY <2>1 DEF Over
<1>. HIDE DEF new
<1>2. WhereOk(o, <<"put", "settings", "general", new>>, rows)
  BY <1>1 DEF WhereOk
<1>3. ListOk(o, <<SaveRow("settings", "general", new)>>, rows)
  BY <1>2, WhereStep, ListOf DEF SaveRow
<1>. QED
  BY <1>3 DEF new

\* So does every request that a goroutine is asked for.
LEMMA RequestOk ==
  ASSUME NEW w \in Worker, NEW o \in Does[w], NEW rows, NEW c, Lasting => SettingsOn(rows)
  PROVE  ListOk(o, Plan(o, rows, c), rows)
<1>1. CASE o[1] = "login"
  <2>1. Plan(o, rows, c) = Login(o[2], o[3], o[4], o[5], rows)
    BY <1>1 DEF Plan
  <2>. QED
    BY <1>1, <2>1, LoginOk
<1>2. CASE o[1] = "mfaChallenge"
  <2>1. Plan(o, rows, c) = MfaChallenge(o[2], o[3], rows)
    BY <1>2 DEF Plan
  <2>. QED
    BY <1>2, <2>1, MfaChallengeOk
<1>3. CASE o[1] = "logout"
  <2>1. Plan(o, rows, c) = Logout(o[2])
    BY <1>3 DEF Plan
  <2>. QED
    BY <1>3, <2>1, DeleteStep, ListOf DEF Logout, Plain
<1>4. CASE o[1] = "passkeyChallenge"
  <2>1. Plan(o, rows, c) = PasskeyChallenge(o[2], rows)
    BY <1>4 DEF Plan
  <2>. QED
    BY <1>4, <2>1, PasskeyChallengeOk
<1>5. CASE o[1] = "finishAssertion"
  <2>1. Plan(o, rows, c) = FinishAssertion(o[2], o[3], rows)
    BY <1>5 DEF Plan
  <2>. QED
    BY <1>5, <2>1, FinishAssertionOk
<1>6. CASE o[1] = "passkeyBegin"
  <2>1. Plan(o, rows, c) = PasskeyBegin(o[2], rows)
    BY <1>6 DEF Plan
  <2>. QED
    BY <1>6, <2>1, PasskeyChallengeOk
<1>7. CASE o[1] = "passkeyFinish"
  <2>1. Plan(o, rows, c) = PasskeyFinish(o[2], o[3], o[4], rows)
    BY <1>7 DEF Plan
  <2>. QED
    BY <1>7, <2>1, PasskeyFinishOk
<1>8. CASE o[1] = "securityPasskey"
  <2>1. Plan(o, rows, c) = RegisterPasskey(o[2], o[3], o[4], rows)
    BY <1>8 DEF Plan
  <2>. QED
    BY <1>8, <2>1, RegisterPasskeyOk
<1>9. CASE o[1] = "totpBegin"
  <2>1. Plan(o, rows, c) = TotpBegin(o[2], o[3], rows)
    BY <1>9 DEF Plan
  <2>. QED
    BY <1>9, <2>1, TotpOk
<1>10. CASE o[1] = "totpConfirm"
  <2>1. Plan(o, rows, c) = TotpConfirm(o[2], o[3], rows)
    BY <1>10 DEF Plan
  <2>. QED
    BY <1>10, <2>1, TotpOk DEF Lasting
<1>11. CASE o[1] = "totpDisable"
  <2>1. Plan(o, rows, c) = TotpDisable(o[2], o[3], rows)
    BY <1>11 DEF Plan
  <2>. QED
    BY <1>11, <2>1, TotpDisableOk
<1>12. CASE o[1] = "verify"
  <2>1. Plan(o, rows, c) = Redeem(o[2], "verify", [validated |-> TRUE], rows)
    BY <1>12 DEF Plan
  <2>. QED
    BY <1>12, <2>1, RedeemOk
<1>13. CASE o[1] = "reset"
  <2>1. Plan(o, rows, c) = Redeem(o[2], "reset", [hash |-> o[3]], rows)
    BY <1>13 DEF Plan
  <2>. QED
    BY <1>13, <2>1, RedeemOk
<1>14. CASE o[1] = "resetRequest"
  <2>1. Plan(o, rows, c) = ResetRequest(o[2], o[3], o[4], rows)
    BY <1>14 DEF Plan
  <2>. QED
    BY <1>14, <2>1, ResetRequestOk
<1>15. CASE o[1] = "resend"
  <2>1. Plan(o, rows, c) = VerifyResend(o[2], o[3], rows)
    BY <1>15 DEF Plan
  <2>. QED
    BY <1>15, <2>1, VerifyResendOk
<1>16. CASE o[1] = "apiLogin"
  <2>1. Plan(o, rows, c) = ApiLogin(o[2], o[3], o[4], o[5], rows)
    BY <1>16 DEF Plan
  <2>. QED
    BY <1>16, <2>1, ApiLoginOk
<1>17. CASE o[1] = "apiMFA"
  <2>1. Plan(o, rows, c) = ApiMFA(o[2], o[3], o[4], o[5], rows)
    BY <1>17 DEF Plan
  <2>. QED
    BY <1>17, <2>1, ApiMFAOk
<1>18. CASE o[1] = "apiRefresh"
  <2>1. Plan(o, rows, c) = ApiRefresh(o[2], o[3], o[4], rows)
    BY <1>18 DEF Plan
  <2>. QED
    BY <1>18, <2>1, ApiRefreshOk
<1>19. CASE o[1] = "apiSettings"
  <2>1. Plan(o, rows, c) = ApiSettings(o[2], o[3], rows)
    BY <1>19 DEF Plan
  <2>. QED
    BY <1>19, <2>1, ApiSettingsOk
<1>20. CASE o[1] = "apiTotpBegin"
  <2>1. Plan(o, rows, c) = ApiTotpBegin(o[2], o[3], o[4], rows)
    BY <1>20 DEF Plan
  <2>. QED
    BY <1>20, <2>1, ApiTotpOk
<1>21. CASE o[1] = "apiTotpConfirm"
  <2>1. Plan(o, rows, c) = ApiTotpConfirm(o[2], o[3], o[4], rows)
    BY <1>21 DEF Plan
  <2>. QED
    BY <1>21, <2>1, ApiTotpOk DEF Lasting
<1>22. CASE o[1] = "credential"
  <2>1. Plan(o, rows, c) = CredentialForm(o[2], o[3], o[4], rows)
    BY <1>22 DEF Plan
  <2>. QED
    BY <1>22, <2>1, CredentialOk
<1>23. CASE o[1] = "newCredential"
  <2>1. Plan(o, rows, c) = IssueCredential(o[2], o[3])
    BY <1>23 DEF Plan
  <2>. QED
    BY <1>23, <2>1, CredentialOk
<1>24. CASE o[1] = "deleteCredential"
  <2>1. Plan(o, rows, c) = <<DeleteRow("credential", o[2])>>
    BY <1>24 DEF Plan
  <2>. QED
    BY <1>24, <2>1, CredentialOk
<1>25. CASE o[1] = "oauth"
  <2>1. Plan(o, rows, c) = BeginOAuth(o[2], o[3], rows)
    BY <1>25 DEF Plan
  <2>. QED
    BY <1>25, <2>1, OAuthOk
<1>26. CASE o[1] = "oauthCallback"
  <2>1. Plan(o, rows, c) = OauthCallback(o[2], o[3], o[4], rows)
    BY <1>26 DEF Plan
  <2>. QED
    BY <1>26, <2>1, OAuthOk
<1>27. CASE o[1] = "profile"
  <2>1. Plan(o, rows, c) = UpdateProfileIdentity(o[2], o[3], o[4], o[5], rows)
    BY <1>27 DEF Plan
  <2>. QED
    BY <1>27, <2>1, ProfileOk
<1>28. CASE o[1] = "password"
  <2>1. Plan(o, rows, c) = UpdatePassword(o[2], o[3], o[4], rows)
    BY <1>28 DEF Plan
  <2>. QED
    BY <1>28, <2>1, ProfileOk
<1>29. CASE o[1] = "avatar"
  <2>1. Plan(o, rows, c) = Avatar(o[2], o[3], rows)
    BY <1>29 DEF Plan
  <2>. QED
    BY <1>29, <2>1, ProfileOk
<1>30. CASE o[1] = "newUser"
  <2>1. Plan(o, rows, c) = CreateLocalUser(o[2], o[3])
    BY <1>30 DEF Plan
  <2>. QED
    BY <1>30, <2>1, AccountOk
<1>31. CASE o[1] = "userForm"
  <2>1. Plan(o, rows, c) = UserForm(o[2], o[3], o[4], rows)
    BY <1>31 DEF Plan
  <2>. QED
    BY <1>31, <2>1, AccountOk
<1>32. CASE o[1] = "userDelete"
  <2>1. Plan(o, rows, c) = UserDelete(o[2])
    BY <1>32 DEF Plan
  <2>. QED
    BY <1>32, <2>1, AccountOk
<1>33. CASE o[1] = "settings"
  <2>1. Plan(o, rows, c) = <<SaveRow("settings", "general", Over(o[2], Setting(rows)))>>
    BY <1>33 DEF Plan
  <2>. QED
    BY <1>33, <2>1, SettingsOk DEF Lasting
<1>. QED
  BY SignInDoesAssumption, <1>1, <1>2, <1>3, <1>4, <1>5, <1>6, <1>7, <1>8, <1>9, <1>10, <1>11, <1>12,
     <1>13, <1>14, <1>15, <1>16, <1>17, <1>18, <1>19, <1>20, <1>21, <1>22, <1>23, <1>24,
     <1>25, <1>26, <1>27, <1>28, <1>29, <1>30, <1>31, <1>32, <1>33 DEF Request

----------------------------------------------------------------------------
\* What a statement does to the rows

\* Nobody can use t any more.
Gone(t, rows) ==
  /\ Has(IF t[1] = "token" THEN "token" ELSE "spent", t[2], rows)
  /\ ~Usable(t, rows)

\* What a statement may do to the rows.
Moves(rows, new) ==
  /\ \A t : Has("spent", t, rows) => Has("spent", t, new)
  /\ \A t : Has("pending", t, new) => Has("pending", t, rows) \/ ~Has("spent", t, rows)
  /\ \A t : Has("spent", t, new) => Has("spent", t, rows) \/ ~Has("pending", t, new)
  /\ \A t : Gone(<<"token", t>>, rows) => Gone(<<"token", t>>, new)
  /\ Lasting =>
       /\ SettingsOn(rows) => SettingsOn(new)
       /\ \A r \in new : r[1] = "totp" => r \in rows

LEMMA MovesNot ==
  ASSUME NEW rows
  PROVE  Moves(rows, rows)
BY DEF Moves

LEMMA MovesPut ==
  ASSUME NEW rows, NEW new, NEW what, NEW x, NEW row,
         what \notin {"pending", "spent"},
         what = "token" => row.used,
         Lasting => what # "totp",
         Lasting /\ what = "settings" => x = "general" /\ "totp" \in DOMAIN row /\ row.totp,
         new = (rows \ Of(what, x, rows)) \cup {<<what, x, row>>}
  PROVE  Moves(rows, new)
<1>1. \A r : r \in new <=> (r \in rows /\ (r[1] # what \/ r[2] # x)) \/ r = <<what, x, row>>
  BY DEF Of
<1>. DEFINE q == <<what, x, row>>
<1>2. q[1] = what /\ q[2] = x /\ q[3] = row
  OBVIOUS
<1>. HIDE DEF q
<1>3. \A r : r \in new <=> (r \in rows /\ (r[1] # what \/ r[2] # x)) \/ r = q
  BY <1>1 DEF q
<1>4. \A t : Has("spent", t, rows) <=> Has("spent", t, new)
  BY <1>2, <1>3 DEF Has
<1>5. \A t : Has("pending", t, new) => Has("pending", t, rows)
  BY <1>2, <1>3 DEF Has
<1>6. ASSUME NEW t, Gone(<<"token", t>>, rows)
      PROVE  Gone(<<"token", t>>, new)
  <2>1. Has("token", t, rows) /\ \A r \in rows : r[1] = "token" /\ r[2] = t => r[3].used
    BY <1>6 DEF Gone, Usable, Of
  <2>2. Has("token", t, new)
    BY <1>2, <1>3, <2>1 DEF Has
  <2>3. \A r \in new : r[1] = "token" /\ r[2] = t => r[3].used
    BY <1>2, <1>3, <2>1
  <2>. QED
    BY <2>2, <2>3 DEF Gone, Usable, Of
<1>7. ASSUME Lasting, SettingsOn(rows)
      PROVE  SettingsOn(new)
  <2>1. CASE what = "settings"
    <3>1. \A r \in Of("settings", "general", new) : r = q
      BY <1>2, <1>3, <1>7, <2>1 DEF Of
    <3>2. q \in Of("settings", "general", new)
      BY <1>2, <1>3, <1>7, <2>1 DEF Of
    <3>. QED
      BY <1>2, <1>7, <2>1, <3>1, <3>2 DEF SettingsOn
  <2>2. CASE what # "settings"
    <3>1. Of("settings", "general", new) = Of("settings", "general", rows)
      BY <1>2, <1>3, <2>2 DEF Of
    <3>. QED
      BY <1>7, <3>1 DEF SettingsOn
  <2>. QED
    BY <2>1, <2>2
<1>8. Lasting => \A r \in new : r[1] = "totp" => r \in rows
  BY <1>2, <1>3
<1>. QED
  BY <1>4, <1>5, <1>6, <1>7, <1>8 DEF Moves

LEMMA MovesCreate ==
  ASSUME NEW rows, NEW new, NEW what, NEW x, NEW row,
         what \notin {"spent", "totp", "settings"},
         what \in {"token", "pending"} => ~Taken(what, x, rows),
         new = rows \cup {<<what, x, row>>}
  PROVE  Moves(rows, new)
<1>. DEFINE q == <<what, x, row>>
<1>1. q[1] = what /\ q[2] = x /\ q[3] = row
  OBVIOUS
<1>2. new = rows \cup {q}
  OBVIOUS
<1>. HIDE DEF q
<1>3. \A t : Has("spent", t, new) <=> Has("spent", t, rows)
  BY <1>1, <1>2 DEF Has
<1>4. \A t : Has("pending", t, new) => Has("pending", t, rows) \/ ~Has("spent", t, rows)
  BY <1>1, <1>2 DEF Has, Taken
<1>5. ASSUME NEW t, Gone(<<"token", t>>, rows)
      PROVE  Gone(<<"token", t>>, new)
  <2>1. Has("token", t, rows) /\ \A r \in rows : r[1] = "token" /\ r[2] = t => r[3].used
    BY <1>5 DEF Gone, Usable, Of
  <2>2. \A r \in new : r[1] = "token" /\ r[2] = t => r[3].used
    BY <1>1, <1>2, <2>1 DEF Taken
  <2>. QED
    BY <1>2, <2>1, <2>2 DEF Gone, Usable, Of, Has
<1>6. Of("settings", "general", new) = Of("settings", "general", rows)
  BY <1>1, <1>2 DEF Of
<1>7. \A r \in new : r[1] = "totp" => r \in rows
  BY <1>1, <1>2
<1>. QED
  BY <1>3, <1>4, <1>5, <1>6, <1>7 DEF Moves, SettingsOn

LEMMA MovesDelete ==
  ASSUME NEW rows, NEW new, new \subseteq rows,
         \A r \in rows : r[1] \in {"token", "spent", "settings"} => r \in new
  PROVE  Moves(rows, new)
<1>1. \A t : Has("spent", t, new) <=> Has("spent", t, rows)
  BY DEF Has
<1>2. \A t : Has("pending", t, new) => Has("pending", t, rows)
  BY DEF Has
<1>3. ASSUME NEW t, Gone(<<"token", t>>, rows)
      PROVE  Gone(<<"token", t>>, new)
  BY <1>3 DEF Gone, Usable, Of, Has
<1>4. Of("settings", "general", new) = Of("settings", "general", rows)
  BY DEF Of
<1>. QED
  BY <1>1, <1>2, <1>3, <1>4 DEF Moves, SettingsOn

LEMMA MovesSpend ==
  ASSUME NEW rows, NEW new, NEW t,
         new = (rows \ Of("pending", t, rows)) \cup {<<"spent", t, TRUE>>}
  PROVE  Moves(rows, new) /\ Gone(<<"pending", t>>, new)
<1>. DEFINE q == <<"spent", t, TRUE>>
<1>1. q[1] = "spent" /\ q[2] = t
  OBVIOUS
<1>. HIDE DEF q
<1>2. \A r : r \in new <=> (r \in rows /\ (r[1] # "pending" \/ r[2] # t)) \/ r = q
  BY DEF Of, q
<1>3. \A x : Has("spent", x, rows) => Has("spent", x, new)
  BY <1>1, <1>2 DEF Has
<1>4. \A x : Has("pending", x, new) => Has("pending", x, rows)
  BY <1>1, <1>2 DEF Has
<1>5. \A x : Has("spent", x, new) => Has("spent", x, rows) \/ ~Has("pending", x, new)
  BY <1>1, <1>2 DEF Has
<1>6. \A x : Of("token", x, new) = Of("token", x, rows)
  BY <1>1, <1>2 DEF Of
<1>7. Of("settings", "general", new) = Of("settings", "general", rows)
  BY <1>1, <1>2 DEF Of
<1>8. \A r \in new : r[1] = "totp" => r \in rows
  BY <1>1, <1>2
<1>9. ASSUME NEW x, Gone(<<"token", x>>, rows)
      PROVE  Gone(<<"token", x>>, new)
  <2>1. Has("token", x, new)
    BY <1>1, <1>2, <1>9 DEF Gone, Has
  <2>. QED
    BY <1>6, <1>9, <2>1 DEF Gone, Usable
<1>10. Gone(<<"pending", t>>, new)
  <2>1. Has("spent", t, new)
    BY <1>1, <1>2 DEF Has
  <2>2. Of("pending", t, new) = {}
    BY <1>1, <1>2 DEF Of
  <2>. QED
    BY <2>1, <2>2 DEF Gone, Usable
<1>. QED
  BY <1>3, <1>4, <1>5, <1>7, <1>8, <1>9, <1>10 DEF Moves, SettingsOn

\* The rows after statement s.
After(s, rows) == (rows \ s.drop) \cup s.add

LEMMA WriteIs ==
  ASSUME NEW S, NEW R
  PROVE  /\ Write(S, R).drop = S /\ Write(S, R).add = R /\ Write(S, R).upsert /\ Write(S, R).vital
         /\ Ignored(Write(S, R)).drop = S /\ Ignored(Write(S, R)).add = R /\ Ignored(Write(S, R)).upsert
<1>1. Write(S, R).drop = S /\ Write(S, R).add = R
  BY DEF Write, Statement
<1>2. Write(S, R).upsert /\ Write(S, R).vital
  BY DEF Write, Statement
<1>3. Ignored(Write(S, R)).drop = S /\ Ignored(Write(S, R)).add = R /\ Ignored(Write(S, R)).upsert
  BY DEF Write, Statement, Ignored
<1>. QED
  BY <1>1, <1>2, <1>3

LEMMA LinkIs ==
  ASSUME NEW R
  PROVE  /\ Link(R).drop = {} /\ Link(R).add = R /\ Link(R).upsert
         /\ Ignored(Link(R)).drop = {} /\ Ignored(Link(R)).add = R /\ Ignored(Link(R)).upsert
<1>1. Link(R).drop = {} /\ Link(R).add = R /\ Link(R).upsert
  BY DEF Link, Statement
<1>2. Ignored(Link(R)).drop = {} /\ Ignored(Link(R)).add = R /\ Ignored(Link(R)).upsert
  BY DEF Link, Statement, Ignored
<1>. QED
  BY <1>1, <1>2

LEMMA FailsIs ==
  /\ Fails.drop = {} /\ Fails.add = {} /\ Fails.upsert
  /\ Ignored(Fails).drop = {} /\ Ignored(Fails).add = {} /\ Ignored(Fails).upsert
BY DEF Fails, Needing, Statement, Ignored

LEMMA PutMoves ==
  ASSUME NEW rows, NEW what, NEW x, NEW row, NEW s,
         what \notin {"pending", "spent"},
         what = "token" => row.used,
         Lasting => what # "totp",
         Lasting /\ what = "settings" => x = "general" /\ "totp" \in DOMAIN row /\ row.totp,
         s \in {Put(what, x, row, rows)[1], Ignored(Put(what, x, row, rows)[1])}
  PROVE  s.upsert /\ Moves(rows, After(s, rows))
<1>1. CASE s.drop = {} /\ s.add = {} /\ s.upsert
  <2>1. After(s, rows) = rows
    BY <1>1 DEF After
  <2>. QED
    BY <1>1, <2>1, MovesNot
<1>2. CASE s.drop = Of(what, x, rows) /\ s.add = {<<what, x, row>>} /\ s.upsert
  <2>1. After(s, rows) = (rows \ Of(what, x, rows)) \cup {<<what, x, row>>}
    BY <1>2 DEF After
  <2>. QED
    BY <1>2, <2>1, MovesPut
<1>3. \/ Put(what, x, row, rows)[1] = Fails
      \/ Put(what, x, row, rows)[1] = Write(Of(what, x, rows), {<<what, x, row>>})
  BY DEF Put
<1>. QED
  BY <1>1, <1>2, <1>3, FailsIs, WriteIs

LEMMA SessionMoves ==
  ASSUME NEW rows, NEW b, NEW row, NEW s,
         s \in {Put("session", b, row, rows)[1], Ignored(Put("session", b, row, rows)[1])}
  PROVE  s.upsert /\ Moves(rows, After(s, rows))
<1>1. "session" \notin {"pending", "spent", "token", "totp", "settings"}
  OBVIOUS
<1>. QED
  BY <1>1, PutMoves

LEMMA CreateMoves ==
  ASSUME NEW rows, NEW what, NEW x, NEW row, NEW s,
         what \notin {"spent", "totp", "settings"},
         s = Create(what, x, row, rows)[1]
  PROVE  s.upsert /\ Moves(rows, After(s, rows))
<1>1. CASE s.drop = {} /\ s.add = {} /\ s.upsert
  <2>1. After(s, rows) = rows
    BY <1>1 DEF After
  <2>. QED
    BY <1>1, <2>1, MovesNot
<1>2. CASE s.drop = {} /\ s.add = {<<what, x, row>>} /\ s.upsert /\ ~Taken(what, x, rows)
  <2>1. After(s, rows) = rows \cup {<<what, x, row>>}
    BY <1>2 DEF After
  <2>. QED
    BY <1>2, <2>1, MovesCreate
<1>. QED
  BY <1>1, <1>2, FailsIs, LinkIs DEF Create

LEMMA DeleteMoves ==
  ASSUME NEW rows, NEW s, s.upsert, s.add = {},
         \A r \in s.drop : r[1] \notin {"token", "spent", "settings"}
  PROVE  Moves(rows, After(s, rows))
<1>1. After(s, rows) \subseteq rows /\ \A r \in rows : r[1] \in {"token", "spent", "settings"} => r \in After(s, rows)
  BY DEF After
<1>. QED
  BY <1>1, MovesDelete

LEMMA RegisterMoves ==
  ASSUME NEW rows, NEW u, NEW s,
         s = Ignored(IF Has("user", u, rows) THEN Link({<<"member", u, "registered">>}) ELSE Fails)
  PROVE  s.upsert /\ Moves(rows, After(s, rows))
<1>1. CASE s.drop = {} /\ s.add = {} /\ s.upsert
  <2>1. After(s, rows) = rows
    BY <1>1 DEF After
  <2>. QED
    BY <1>1, <2>1, MovesNot
<1>2. CASE s.drop = {} /\ s.add = {<<"member", u, "registered">>} /\ s.upsert
  <2>1. After(s, rows) = rows \cup {<<"member", u, "registered">>}
    BY <1>2 DEF After
  <2>2. "member" \notin {"spent", "totp", "settings", "token", "pending"}
    OBVIOUS
  <2>3. Moves(rows, After(s, rows))
    BY <2>1, <2>2, MovesCreate
  <2>. QED
    BY <1>2, <2>3
<1>. QED
  BY <1>1, <1>2, FailsIs, LinkIs

LEMMA SetMoves ==
  ASSUME NEW rows, NEW x, NEW columns, NEW s, s = Set(x, columns, rows)[1]
  PROVE  s.upsert /\ Moves(rows, After(s, rows))
<1>1. CASE Has("user", x, rows)
  <2>1. s = Put("user", x, Over(columns, The("user", x, rows)), rows)[1]
    BY <1>1 DEF Set
  <2>. QED
    BY <2>1, PutMoves
<1>2. CASE ~Has("user", x, rows)
  <2>1. s = Statement
    BY <1>2 DEF Set
  <2>2. s.upsert /\ After(s, rows) = rows
    BY <2>1 DEF Statement, After
  <2>. QED
    BY <2>2, MovesNot
<1>. QED
  BY <1>1, <1>2

\* What a statement of a request does to the rows.
LEMMA WhereMoves ==
  ASSUME NEW o, NEW rows, NEW c, NEW op, WhereOk(o, op, rows), NEW s, s = Head(Plan(op, rows, c))
  PROVE  s.upsert /\ Moves(rows, After(s, rows))
<1>1. CASE op[1] = "put"
  <2>1. Plan(op, rows, c) = Put(op[2], op[3], op[4], rows)
    BY <1>1 DEF Plan
  <2>2. s = Put(op[2], op[3], op[4], rows)[1]
    BY <2>1 DEF Put
  <2>. QED
    BY <1>1, <2>2, PutMoves DEF WhereOk
<1>2. CASE op[1] = "try"
  <2>1. Plan(op, rows, c) = <<Ignored(Put(op[2], op[3], op[4], rows)[1])>>
    BY <1>2 DEF Plan
  <2>2. s = Ignored(Put(op[2], op[3], op[4], rows)[1])
    BY <2>1
  <2>. QED
    BY <1>2, <2>2, PutMoves DEF WhereOk
<1>3. CASE op[1] = "create"
  <2>1. Plan(op, rows, c) = Create(op[2], op[3], op[4], rows)
    BY <1>3 DEF Plan
  <2>2. s = Create(op[2], op[3], op[4], rows)[1]
    BY <2>1 DEF Create
  <2>. QED
    BY <1>3, <2>2, CreateMoves DEF WhereOk
<1>4. CASE op[1] = "set"
  <2>1. Plan(op, rows, c) = Set(op[2], op[3], rows)
    BY <1>4 DEF Plan
  <2>2. s = Set(op[2], op[3], rows)[1]
    BY <2>1 DEF Set, Put
  <2>. QED
    BY <2>2, SetMoves
<1>5. CASE op[1] = "delete"
  <2>1. Plan(op, rows, c) = <<Delete(Of(op[2], op[3], rows))>>
    BY <1>5 DEF Plan
  <2>2. s.upsert /\ s.add = {} /\ s.drop = Of(op[2], op[3], rows)
    BY <2>1 DEF Delete, Statement
  <2>3. \A r \in s.drop : r[1] \notin {"token", "spent", "settings"}
    BY <1>5, <2>2 DEF Of, WhereOk
  <2>. QED
    BY <2>2, <2>3, DeleteMoves
<1>6. CASE op[1] = "spend"
  <2>1. Plan(op, rows, c) = Spend(op[2], rows)
    BY <1>6 DEF Plan
  <2>. DEFINE D == Of("pending", op[2], rows)
              A == {<<"spent", op[2], TRUE>>}
  <2>2. s.upsert /\ s.add = A /\ s.drop = D
    <3>1. s = Write(D, A)
      <4>. DEFINE W == Write(D, A)
      <4>1. Spend(op[2], rows) = <<W>>
        BY DEF Spend
      <4>. HIDE DEF W
      <4>2. s = W
        BY <2>1, <4>1
      <4>. QED
        BY <4>2 DEF W
    <3>. HIDE DEF D, A
    <3>. QED
      BY <3>1, WriteIs
  <2>3. After(s, rows) = (rows \ Of("pending", op[2], rows)) \cup {<<"spent", op[2], TRUE>>}
    BY <2>2 DEF After
  <2>. QED
    BY <2>2, <2>3, MovesSpend
<1>7. CASE op[1] = "enter"
  <2>1. Plan(op, rows, c) = Put("session", op[2], op[3], rows)
    BY <1>7 DEF Plan
  <2>2. s = Put("session", op[2], op[3], rows)[1]
    BY <2>1 DEF Put
  <2>. QED
    BY <2>2, SessionMoves
<1>8. CASE op[1] = "tryEnter"
  <2>1. Plan(op, rows, c) = <<Ignored(Put("session", op[2], op[3], rows)[1])>>
    BY <1>8 DEF Plan
  <2>2. s = Ignored(Put("session", op[2], op[3], rows)[1])
    BY <2>1
  <2>. QED
    BY <2>2, SessionMoves
<1>9. CASE op[1] = "register"
  <2>1. Plan(op, rows, c) = <<Ignored(IF Has("user", op[2], rows) THEN Link({<<"member", op[2], "registered">>}) ELSE Fails)>>
    BY <1>9 DEF Plan
  <2>2. s = Ignored(IF Has("user", op[2], rows) THEN Link({<<"member", op[2], "registered">>}) ELSE Fails)
    BY <2>1
  <2>. QED
    BY <2>2, RegisterMoves
<1>10. CASE op[1] = "unlink"
  <2>1. Plan(op, rows, c) = <<Delete({r \in rows : r[1] = "identity" /\ r[3] = op[2]})>>
    BY <1>10 DEF Plan
  <2>2. s.upsert /\ s.add = {} /\ s.drop = {r \in rows : r[1] = "identity" /\ r[3] = op[2]}
    BY <2>1 DEF Delete, Statement
  <2>. QED
    BY <2>2, DeleteMoves
<1>11. CASE op[1] = "sign"
  <2>1. Plan(op, rows, c) = Sign(op[2], op[3], op[4], rows)
    BY <1>11 DEF Plan
  <2>2. s = Create("jwt", op[2], [user |-> op[3], secret |-> op[4]], rows)[1]
    BY <2>1 DEF Sign, Create
  <2>. QED
    BY <2>2, CreateMoves
<1>. QED
  BY <1>1, <1>2, <1>3, <1>4, <1>5, <1>6, <1>7, <1>8, <1>9, <1>10, <1>11 DEF WhereOk

\* Spending: nobody can use the token afterwards, and nothing else has changed.
Spends(t, s) ==
  /\ s.do = "where"
  /\ \/ t[1] = "token" /\ \E row : row.used /\ s.op = <<"put", "token", t[2], row>>
     \/ t[1] = "pending" /\ s.op = <<"spend", t[2]>>

LEMMA SpendsDoes ==
  ASSUME NEW t, NEW k, t = <<k, t[2]>>, NEW now, Spends(t, now), NEW rows, NEW c, NEW s, s = Head(Plan(now.op, rows, c))
  PROVE  /\ s.vital
         /\ Gone(t, After(s, rows))
         /\ Given(After(s, rows)) = Given(rows)
<1>1. CASE t[1] = "token"
  <2>1. PICK row : row.used /\ now.op = <<"put", "token", t[2], row>>
    BY <1>1 DEF Spends
  <2>2. Plan(now.op, rows, c) = Put("token", t[2], row, rows)
    BY <2>1 DEF Plan
  <2>. DEFINE q == <<"token", t[2], row>>
  <2>3. q[1] = "token" /\ q[2] = t[2] /\ q[3].used
    BY <2>1
  <2>4. s.vital /\ s.drop = Of("token", t[2], rows) /\ s.add = {q}
    BY <2>2, WriteIs DEF Put
  <2>. HIDE DEF q
  <2>5. \A r : r \in After(s, rows) <=> (r \in rows /\ (r[1] # "token" \/ r[2] # t[2])) \/ r = q
    BY <2>4 DEF After, Of
  <2>6. Gone(t, After(s, rows))
    <3>1. Has("token", t[2], After(s, rows))
      BY <2>3, <2>5 DEF Has
    <3>2. \A r \in Of("token", t[2], After(s, rows)) : r = q
      BY <2>3, <2>5 DEF Of
    <3>. QED
      BY <1>1, <2>3, <3>1, <3>2 DEF Gone, Usable
  <2>7. Given(After(s, rows)) = Given(rows)
    BY <2>3, <2>5 DEF Given
  <2>. QED
    BY <2>4, <2>6, <2>7
<1>2. CASE t[1] = "pending"
  <2>0. now.op = <<"spend", t[2]>>
    BY <1>2 DEF Spends
  <2>1. Plan(now.op, rows, c) = Spend(t[2], rows)
    <3>1. now.op[1] = "spend" /\ now.op[2] = t[2]
      BY <2>0
    <3>. QED
      BY <3>1 DEF Plan
  <2>. DEFINE D == Of("pending", t[2], rows)
              A == {<<"spent", t[2], TRUE>>}
  <2>2. s.vital /\ s.add = A /\ s.drop = D
    <3>1. s = Write(D, A)
      <4>. DEFINE W == Write(D, A)
      <4>1. Spend(t[2], rows) = <<W>>
        BY DEF Spend
      <4>. HIDE DEF W
      <4>2. s = W
        BY <2>1, <4>1
      <4>. QED
        BY <4>2 DEF W
    <3>. HIDE DEF D, A
    <3>. QED
      BY <3>1, WriteIs
  <2>3. After(s, rows) = (rows \ Of("pending", t[2], rows)) \cup {<<"spent", t[2], TRUE>>}
    BY <2>2 DEF After
  <2>4. Gone(<<"pending", t[2]>>, After(s, rows))
    BY <2>3, MovesSpend
  <2>5. Given(After(s, rows)) = Given(rows)
    <3>. DEFINE q == <<"spent", t[2], TRUE>>
    <3>1. q[1] = "spent"
      OBVIOUS
    <3>2. After(s, rows) = (rows \ Of("pending", t[2], rows)) \cup {q}
      BY <2>3
    <3>. HIDE DEF q
    <3>. QED
      BY <3>1, <3>2 DEF Given, Of
  <2>. QED
    BY <1>2, <2>2, <2>4, <2>5
<1>. QED
  BY <1>1, <1>2 DEF Spends

\* The rows: no token that is spent is there, and nobody has an app he has not had from
\* the start.
RowsOk(rows) ==
  /\ \A t : Has("spent", t, rows) => ~Has("pending", t, rows)
  /\ Lasting =>
       /\ SettingsOn(rows)
       /\ \E start \in Start : \A r \in rows : r[1] = "totp" => r \in start

LEMMA RowsStay ==
  ASSUME NEW rows, NEW new, RowsOk(rows), Moves(rows, new)
  PROVE  RowsOk(new)
<1>1. \A t : Has("spent", t, new) => ~Has("pending", t, new)
  BY DEF RowsOk, Moves
<1>2. ASSUME Lasting
      PROVE  \E start \in Start : \A r \in new : r[1] = "totp" => r \in start
  BY <1>2 DEF RowsOk, Moves
<1>. QED
  BY <1>1, <1>2 DEF RowsOk, Moves

\* A name of a token, with its kind.
Named(t) == \E x : t = <<"token", x>> \/ t = <<"pending", x>>

LEMMA PresentedNamed ==
  ASSUME NEW o, NEW t \in Presented(o)
  PROVE  Named(t)
BY DEF Presented, Named

LEMMA GoneStays ==
  ASSUME NEW rows, NEW new, RowsOk(rows), Moves(rows, new), NEW t, Named(t), Gone(t, rows)
  PROVE  Gone(t, new)
<1>1. PICK x : t = <<"token", x>> \/ t = <<"pending", x>>
  BY DEF Named
<1>2. CASE t = <<"token", x>>
  BY <1>2 DEF Moves
<1>3. CASE t = <<"pending", x>>
  <2>1. Has("spent", x, rows)
    BY <1>3 DEF Gone
  <2>2. Has("spent", x, new)
    BY <2>1 DEF Moves
  <2>3. ~Has("pending", x, new)
    BY <2>2, RowsStay DEF RowsOk
  <2>. QED
    BY <1>3, <2>2, <2>3 DEF Gone, Usable, Of, Has
<1>. QED
  BY <1>1, <1>2, <1>3

LEMMA LawfulStays ==
  ASSUME NEW rows, NEW new, RowsOk(rows), Moves(rows, new), NEW o, NEW u, Lawful(o, u, rows)
  PROVE  Lawful(o, u, new)
<1>. SUFFICES ASSUME Lasting, AppIn(u, new)
              PROVE  Brought(o, u, new)
  BY DEF Lawful
<1>1. PICK start \in Start : \A r \in rows : r[1] = "totp" => r \in start
  BY DEF RowsOk
<1>2. Of("totp", u, new) \subseteq Of("totp", u, rows)
  BY DEF Moves, Of
<1>3. Of("totp", u, rows) \subseteq Of("totp", u, start)
  BY <1>1 DEF Of
<1>4. Of("totp", u, start) = Of("totp", u, new)
  BY DEF AppIn
<1>5. Of("totp", u, rows) = Of("totp", u, new)
  BY <1>2, <1>3, <1>4
<1>6. Setting(rows).totp
  BY DEF RowsOk, SettingsOn, Setting, The
<1>7. Has("totp", u, rows)
  <2>1. Of("totp", u, new) # {}
    BY DEF AppIn, Has, Of
  <2>. QED
    BY <1>5, <2>1 DEF Has, Of
<1>8. AppIn(u, rows)
  BY <1>5, <1>6, <1>7 DEF AppIn
<1>9. Brought(o, u, rows)
  BY <1>8 DEF Lawful
<1>. QED
  BY <1>5, <1>9 DEF Brought, The

\* What can be said of a request under way, with steps l to take.
Promise(o, l, rows) ==
  /\ l # <<>>
  /\ ListOk(o, l, rows)
  /\ \A t \in Presented(o) : l = <<Call(o)>> \/ l = <<Return>> \/ Spends(t, Head(l)) \/ Gone(t, rows)

LEMMA PromiseStays ==
  ASSUME NEW rows, NEW new, RowsOk(rows), Moves(rows, new), NEW o, NEW l, Promise(o, l, rows)
  PROVE  Promise(o, l, new)
<1>1. ListOk(o, l, new)
  BY LawfulStays, ListStays DEF Promise
<1>2. \A t \in Presented(o) : Gone(t, rows) => Gone(t, new)
  BY GoneStays, PresentedNamed
<1>. QED
  BY <1>1, <1>2 DEF Promise

----------------------------------------------------------------------------
\* Requests that show a token

\* The first thing a request does that shows a token.
Opens(t, l) == l = <<>> \/ l = <<Return>> \/ Spends(t, Head(l))

LEMMA Opening ==
  ASSUME NEW t, NEW a, NEW S, NEW l \in Seq(S), NEW b, Spends(t, a)
  PROVE  /\ Opens(t, <<a>> \o When(b, l))
         /\ Opens(t, <<Return>> \o When(FALSE, l))
<1>2. When(b, l) \in Seq(S)
  BY DEF When
<1>3. Head(<<a>> \o When(b, l)) = a
  <2>. DEFINE m == When(b, l)
              T == S \cup {a}
  <2>1. m \in Seq(T) /\ <<a>> \in Seq(T)
    BY <1>2
  <2>. HIDE DEF m, T
  <2>2. (<<a>> \o m)[1] = a
    BY <2>1
  <2>3. Head(<<a>> \o m) = (<<a>> \o m)[1]
    BY <2>1
  <2>. QED
    BY <2>2, <2>3 DEF m
<1>4. <<Return>> \o When(FALSE, l) = <<Return>>
  BY DEF When
<1>. QED
  BY <1>3, <1>4 DEF Opens

LEMMA ConsumeOpens ==
  ASSUME NEW rows, NEW t, NEW type, NEW S, NEW l \in Seq(S)
  PROVE  /\ LET spent == ConsumeToken(t, type, rows)
            IN Opens(<<"token", t>>, spent \o When(spent # <<Return>>, l))
         /\ LET spent == ConsumePending(t, type, rows)
            IN Opens(<<"pending", t>>, spent \o When(spent # <<Return>>, l))
<1>1. ASSUME NEW spent, NEW a, NEW x, Spends(x, a), spent \in {<<Return>>, <<a>>}
      PROVE  Opens(x, spent \o When(spent # <<Return>>, l))
  <2>1. CASE spent = <<Return>>
    <3>1. spent \o When(spent # <<Return>>, l) = <<Return>>
      BY <2>1 DEF When
    <3>. QED
      BY <3>1 DEF Opens
  <2>2. CASE spent = <<a>>
    <3>. DEFINE b == spent # <<Return>>
    <3>1. Opens(x, <<a>> \o When(b, l))
      <4>. HIDE DEF b
      <4>. QED
        BY <1>1, Opening
    <3>. QED
      BY <2>2, <3>1
  <2>. QED
    BY <1>1, <2>1, <2>2
<1>2. ASSUME NEW u
      PROVE  Spends(<<"token", t>>, SaveRow("token", t, [type |-> type, user |-> u, used |-> TRUE]))
  BY DEF Spends, SaveRow, Where
<1>3. Spends(<<"pending", t>>, Where(<<"spend", t>>))
  BY DEF Spends, Where
<1>4. \E a : Spends(<<"token", t>>, a) /\ ConsumeToken(t, type, rows) \in {<<Return>>, <<a>>}
  BY <1>2 DEF ConsumeToken
<1>5. \E a : Spends(<<"pending", t>>, a) /\ ConsumePending(t, type, rows) \in {<<Return>>, <<a>>}
  BY <1>3 DEF ConsumePending
<1>. QED
  BY <1>1, <1>4, <1>5

\* A list of one step.
LEMMA OneStep ==
  ASSUME NEW a
  PROVE  \E S : <<a>> \in Seq(S)
<1>1. <<a>> \in Seq({a})
  OBVIOUS
<1>. QED
  BY <1>1

LEMMA RequestOpens ==
  ASSUME NEW o, NEW rows, NEW c, NEW t \in Presented(o)
  PROVE  Opens(t, Plan(o, rows, c))
<1>1. CASE o[1] = "verify"
  <2>1. Plan(o, rows, c) = Redeem(o[2], "verify", [validated |-> TRUE], rows) /\ t = <<"token", o[2]>>
    BY <1>1 DEF Plan, Presented
  <2>. QED
    BY <2>1, OneStep, ConsumeOpens DEF Redeem
<1>2. CASE o[1] = "reset"
  <2>1. Plan(o, rows, c) = Redeem(o[2], "reset", [hash |-> o[3]], rows) /\ t = <<"token", o[2]>>
    BY <1>2 DEF Plan, Presented
  <2>. QED
    BY <2>1, OneStep, ConsumeOpens DEF Redeem
<1>3. CASE o[1] = "apiMFA"
  <2>1. Plan(o, rows, c) = ApiMFA(o[2], o[3], o[4], o[5], rows) /\ t = <<"pending", o[2]>>
    BY <1>3 DEF Plan, Presented
  <2>. QED
    BY <2>1, OneStep, ConsumeOpens DEF ApiMFA
<1>4. CASE o[1] = "apiRefresh"
  <2>1. Plan(o, rows, c) = ApiRefresh(o[2], o[3], o[4], rows) /\ t = <<"pending", o[2]>>
    BY <1>4 DEF Plan, Presented
  <2>2. ASSUME NEW u PROVE ListOk(o, <<Call(<<"exists", u>>)>> \o IssueLoginTokens(u, o[3], o[4]), rows)
    BY <1>4, ExistsStep, LoginTokensOk, ListConcat
  <2>. QED
    BY <2>1, <2>2, ConsumeOpens DEF ApiRefresh, ListOk
<1>5. CASE o[1] = "apiTotpConfirm"
  <2>1. Plan(o, rows, c) = ApiTotpConfirm(o[2], o[3], o[4], rows) /\ t = <<"pending", o[3]>>
    BY <1>5 DEF Plan, Presented
  <2>. DEFINE u == JwtUser(o[2], rows)
              row == The("pending", o[3], rows)
              rest == When(row.user = u /\ row.secret = o[4], <<SaveRow("totp", u, o[4])>>)
              spent == ConsumePending(o[3], "totp", rows)
  <2>2. Opens(t, spent \o When(spent # <<Return>>, rest))
    <3>1. \E S : rest \in Seq(S)
      BY OneStep DEF When
    <3>. HIDE DEF rest
    <3>. QED
      BY <2>1, <3>1, ConsumeOpens
  <2>3. Opens(t, When(u # None, spent \o When(spent # <<Return>>, rest)))
    BY <2>2 DEF When, Opens
  <2>. QED
    BY <2>1, <2>3 DEF ApiTotpConfirm
<1>. QED
  BY <1>1, <1>2, <1>3, <1>4, <1>5 DEF Presented

----------------------------------------------------------------------------
\* The invariant

Held(w) ==
  \/ worker[w] = Server!Idle
  \/ \E o, l : o \in Does[w] /\ worker[w] = [op |-> o, todo |-> l] /\ Promise(o, l, db)
Inv ==
  /\ DOMAIN worker = Worker
  /\ RowsOk(db)
  /\ \A w \in Worker : Held(w)

LEMMA InitInv == Server!Init => Inv
<1>. SUFFICES ASSUME Server!Init PROVE Inv
  OBVIOUS
<1>1. DOMAIN worker = Worker /\ \A w \in Worker : worker[w] = Server!Idle
  BY DEF Server!Init
<1>2. db \in Start
  BY DEF Server!Init
<1>3. RowsOk(db)
  BY <1>2, SignInStartAssumption DEF RowsOk, Has, Lasting
<1>. QED
  BY <1>1, <1>3 DEF Inv, Held

\* A request goes on with other steps.
LEMMA InsteadDoes ==
  ASSUME NEW w \in Worker, DOMAIN worker = Worker, NEW o, NEW l, worker[w] = [op |-> o, todo |-> l],
         NEW steps, Server!Instead(w, steps)
  PROVE  /\ (DOMAIN worker)' = Worker
         /\ \A v \in Worker : v # w => worker'[v] = worker[v]
         /\ worker'[w] = IF steps = <<>> THEN Server!Idle ELSE [op |-> o, todo |-> steps]
<1>. DEFINE new == IF steps = <<>> THEN Server!Idle ELSE [worker[w] EXCEPT !.todo = steps]
<1>1. worker' = [worker EXCEPT ![w] = new]
  BY DEF Server!Instead
<1>2. new = IF steps = <<>> THEN Server!Idle ELSE [op |-> o, todo |-> steps]
  OBVIOUS
<1>. HIDE DEF new
<1>. QED
  BY <1>1, <1>2

LEMMA Goes ==
  ASSUME Inv, NEW w \in Worker, NEW o \in Does[w], NEW l, worker[w] = [op |-> o, todo |-> l],
         NEW steps, Server!Instead(w, steps), Moves(db, db'), steps # <<>> => Promise(o, steps, db')
  PROVE  Inv'
<1>1. /\ (DOMAIN worker)' = Worker
      /\ \A v \in Worker : v # w => worker'[v] = worker[v]
      /\ worker'[w] = IF steps = <<>> THEN Server!Idle ELSE [op |-> o, todo |-> steps]
  BY InsteadDoes DEF Inv
<1>2. RowsOk(db')
  BY RowsStay DEF Inv
<1>3. ASSUME NEW v \in Worker
      PROVE  Held(v)'
  <2>1. CASE v = w
    BY <1>1, <2>1 DEF Held, Server!Idle
  <2>2. CASE v # w
    <3>1. worker'[v] = worker[v]
      BY <1>1, <2>2
    <3>2. Held(v)
      BY DEF Inv
    <3>3. \A p, m : Promise(p, m, db) => Promise(p, m, db')
      BY PromiseStays DEF Inv
    <3>. QED
      BY <3>1, <3>2, <3>3 DEF Held, Server!Idle
  <2>. QED
    BY <2>1, <2>2
<1>. QED
  BY <1>1, <1>2, <1>3 DEF Inv

LEMMA Begins ==
  ASSUME Inv, NEW w \in Worker, Server!Begin(w)
  PROVE  Inv'
<1>1. PICK o \in Does[w] : worker' = [worker EXCEPT ![w] = [op |-> o, todo |-> <<Call(o)>>]]
  BY DEF Server!Begin, Server!Call, Call
<1>2. db' = db
  BY DEF Server!Begin
<1>3. Promise(o, <<Call(o)>>, db)
  <2>1. CallOk(o, o, db)
    BY DEF CallOk
  <2>. QED
    BY <2>1, CallStep, ListOf DEF Promise
<1>. DEFINE new == [op |-> o, todo |-> <<Call(o)>>]
<1>4. ASSUME NEW v \in Worker
      PROVE  Held(v)'
  <2>1. CASE v = w
    <3>1. worker'[v] = new
      BY <1>1, <2>1 DEF Inv
    <3>. QED
      BY <1>2, <1>3, <2>1, <3>1 DEF Held
  <2>2. CASE v # w
    <3>1. worker'[v] = worker[v]
      BY <1>1, <2>2 DEF Inv
    <3>2. Held(v)
      BY DEF Inv
    <3>. QED
      BY <1>2, <3>1, <3>2 DEF Held, Server!Idle
  <2>. QED
    BY <2>1, <2>2
<1>5. (DOMAIN worker)' = Worker
  BY <1>1 DEF Inv
<1>. QED
  BY <1>2, <1>4, <1>5 DEF Inv

\* What is known of a request under way.
LEMMA Under ==
  ASSUME Inv, NEW w \in Worker, Server!Busy(w)
  PROVE  \E o, l : o \in Does[w] /\ worker[w] = [op |-> o, todo |-> l] /\ Promise(o, l, db)
BY DEF Inv, Held, Server!Busy

LEMMA Expands ==
  ASSUME Inv, NEW w \in Worker, Server!Expand(w)
  PROVE  Inv'
<1>1. PICK o, l : o \in Does[w] /\ worker[w] = [op |-> o, todo |-> l] /\ Promise(o, l, db)
  BY Under DEF Server!Expand, Server!At
<1>2. db' = db
  BY DEF Server!Expand
<1>. DEFINE op == Head(l).op
            steps == Plan(op, db, cached) \o Tail(l)
<1>3. Head(l).do = "call" /\ Server!Instead(w, steps)
  BY <1>1 DEF Server!Expand, Server!At, Server!Now, Server!Later
<1>4. l # <<>> /\ ListOk(o, l, db)
  BY <1>1 DEF Promise
<1>5. CallOk(o, op, db)
  BY <1>3, <1>4, ListParts DEF StepOk, SimpleOk
<1>6. ListOk(o, Plan(op, db, cached), db)
  BY <1>1, <1>5, GuardedPartOk, RequestOk DEF Inv, RowsOk
<1>7. ListOk(o, steps, db)
  BY <1>4, <1>6, ListParts, ListConcat
<1>8. ASSUME NEW t \in Presented(o), steps # <<>>
      PROVE  steps = <<Return>> \/ Spends(t, Head(steps)) \/ Gone(t, db)
  <2>1. CASE l = <<Call(o)>>
    <3>1. op = o /\ Tail(l) = <<>>
      BY <2>1 DEF Call
    <3>2. steps = Plan(o, db, cached)
      <4>. DEFINE P == Plan(o, db, cached)
      <4>1. \E S : P \in Seq(S)
        BY <1>6, <3>1 DEF ListOk
      <4>. HIDE DEF P
      <4>2. P \o <<>> = P
        BY <4>1
      <4>. QED
        BY <3>1, <4>2 DEF P
    <3>. QED
      BY <1>8, <3>2, RequestOpens DEF Opens
  <2>2. CASE l = <<Return>>
    BY <1>3, <2>2 DEF Return
  <2>3. CASE Spends(t, Head(l))
    BY <1>3, <2>3 DEF Spends
  <2>. QED
    BY <1>1, <2>1, <2>2, <2>3 DEF Promise
<1>9. steps # <<>> => Promise(o, steps, db')
  BY <1>2, <1>7, <1>8 DEF Promise
<1>10. Moves(db, db')
  BY <1>2, MovesNot
<1>. HIDE DEF steps
<1>. QED
  BY <1>1, <1>3, <1>9, <1>10, Goes

\* The statement that is executed: what it does, and what may be said of it.
LEMMA Statements ==
  ASSUME Inv, NEW w \in Worker, NEW o, NEW l, worker[w] = [op |-> o, todo |-> l], Promise(o, l, db),
         Server!Executing(w)
  PROVE  /\ Moves(db, Server!Effect(Server!Sql(w)))
         /\ \A t \in Presented(o) :
              \/ Gone(t, db)
              \/ /\ Server!At(w, "where")
                 /\ Spends(t, Head(l))
                 /\ Server!Sql(w).vital
                 /\ Gone(t, Server!Effect(Server!Sql(w)))
                 /\ Given(Server!Effect(Server!Sql(w))) = Given(db)
<1>. DEFINE s == Head(l)
            sql == Server!Sql(w)
<1>1. StepOk(o, s, db)
  BY ListParts DEF Promise
<1>2. s.do \in {"statement", "where"}
  BY DEF Server!Executing, Server!At
<1>3. SimpleOk(o, s, db)
  BY <1>1, <1>2 DEF StepOk
<1>4. Server!Effect(sql) = IF sql.upsert \/ db \cap sql.drop # {} THEN After(sql, db) ELSE db
  BY DEF Server!Effect, After
<1>5. CASE s.do = "statement"
  <2>1. sql = s
    BY <1>5 DEF Server!Sql, Server!At, Server!Now
  <2>2. s.add = {} /\ \A r \in s.drop : r[1] = "identity"
    BY <1>3, <1>5 DEF SimpleOk
  <2>3. After(s, db) \subseteq db /\ \A r \in db : r[1] \in {"token", "spent", "settings"} => r \in After(s, db)
    BY <2>2 DEF After
  <2>4. Moves(db, After(s, db)) /\ Moves(db, db)
    BY <2>3, MovesDelete, MovesNot
  <2>5. ASSUME NEW t \in Presented(o)
        PROVE  Gone(t, db)
    BY <1>5 DEF Promise, Call, Return, Spends
  <2>. QED
    BY <1>4, <2>1, <2>4, <2>5
<1>6. CASE s.do = "where"
  <2>1. sql = Head(Plan(s.op, db, cached)) /\ Server!At(w, "where")
    BY <1>6 DEF Server!Sql, Server!At, Server!Now, Server!Executing
  <2>2. WhereOk(o, s.op, db)
    BY <1>3, <1>6 DEF SimpleOk
  <2>3. sql.upsert /\ Moves(db, After(sql, db))
    BY <2>1, <2>2, WhereMoves
  <2>4. Server!Effect(sql) = After(sql, db)
    BY <1>4, <2>3
  <2>5. ASSUME NEW t \in Presented(o), Spends(t, s)
        PROVE  sql.vital /\ Gone(t, After(sql, db)) /\ Given(After(sql, db)) = Given(db)
    <3>1. \E k : t = <<k, t[2]>>
      BY PresentedNamed DEF Named
    <3>. HIDE DEF sql, s
    <3>. QED
      BY <2>1, <2>5, <3>1, SpendsDoes
  <2>6. ASSUME NEW t \in Presented(o)
        PROVE  Gone(t, db) \/ Spends(t, s)
    BY <1>6 DEF Promise, Call, Return
  <2>. QED
    BY <2>1, <2>3, <2>4, <2>5, <2>6
<1>. QED
  BY <1>2, <1>5, <1>6

\* The rest of the steps, once nobody can use the token any more.
LEMMA RestPromised ==
  ASSUME NEW o, NEW l, NEW rows, NEW new, Promise(o, l, rows), RowsOk(rows), Moves(rows, new),
         \A t \in Presented(o) : Gone(t, new), Tail(l) # <<>>
  PROVE  Promise(o, Tail(l), new)
<1>1. ListOk(o, Tail(l), rows)
  BY ListParts DEF Promise
<1>2. ListOk(o, Tail(l), new)
  BY <1>1, LawfulStays, ListStays
<1>. QED
  BY <1>2 DEF Promise

LEMMA Executes ==
  ASSUME Inv, NEW w \in Worker, Server!Execute(w)
  PROVE  Inv'
<1>1. PICK o, l : o \in Does[w] /\ worker[w] = [op |-> o, todo |-> l] /\ Promise(o, l, db)
  BY Under DEF Server!Execute, Server!Executing, Server!At
<1>2. db' = Server!Effect(Server!Sql(w)) /\ Server!Executing(w)
  BY DEF Server!Execute
<1>3. Server!Instead(w, Tail(l))
  BY <1>1 DEF Server!Execute, Server!Proceed, Server!Later
<1>4. Moves(db, db')
  BY <1>1, <1>2, Statements
<1>5. ASSUME NEW t \in Presented(o)
      PROVE  Gone(t, db')
  <2>1. Gone(t, db) \/ Gone(t, db')
    BY <1>1, <1>2, Statements
  <2>. QED
    BY <1>4, <2>1, PresentedNamed, GoneStays DEF Inv
<1>6. Tail(l) # <<>> => Promise(o, Tail(l), db')
  BY <1>1, <1>4, <1>5, RestPromised DEF Inv
<1>. QED
  BY <1>1, <1>3, <1>4, <1>6, Goes

\* After an error a request is over, or goes on with what a catch says.
LEMMA Errors ==
  ASSUME Inv, NEW w \in Worker, NEW o \in Does[w], NEW l, worker[w] = [op |-> o, todo |-> l], Promise(o, l, db),
         Server!Error(w), db' = db
  PROVE  Inv'
<1>1. ListOk(o, Tail(l), db)
  BY ListParts DEF Promise
<1>2. PICK steps : /\ Server!Instead(w, steps)
                   /\ steps = <<>> \/ \E i \in DOMAIN Tail(l) : Tail(l)[i].do = "catch" /\ steps = Tail(l)[i].steps
  BY DEF Server!Error, Server!Later
<1>3. steps # <<>> => SimpleList(o, steps, db) /\ Presented(o) = {}
  <2>1. ASSUME NEW i \in DOMAIN Tail(l), Tail(l)[i].do = "catch", steps = Tail(l)[i].steps, steps # <<>>
        PROVE  SimpleList(o, steps, db) /\ Presented(o) = {}
    <3>1. StepOk(o, Tail(l)[i], db)
      BY <1>1, ListAt
    <3>. QED
      BY <2>1, <3>1 DEF StepOk, SimpleOk
  <2>. QED
    BY <1>2, <2>1
<1>4. steps # <<>> => Promise(o, steps, db')
  BY <1>3, SimpleIsList DEF Promise
<1>5. Moves(db, db')
  BY MovesNot
<1>. QED
  BY <1>2, <1>4, <1>5, Goes

\* Only a request whose token is gone goes on without having done its first step.
LEMMA Skips ==
  ASSUME Inv, NEW w \in Worker, NEW o \in Does[w], NEW l, worker[w] = [op |-> o, todo |-> l], Promise(o, l, db),
         Server!Proceed(w), db' = db, \A t \in Presented(o) : Gone(t, db)
  PROVE  Inv'
<1>1. Server!Instead(w, Tail(l))
  BY DEF Server!Proceed, Server!Later
<1>2. Moves(db, db')
  BY MovesNot
<1>3. Tail(l) # <<>> => Promise(o, Tail(l), db')
  BY <1>2, RestPromised DEF Inv
<1>. QED
  BY <1>1, <1>2, <1>3, Goes

LEMMA FailsInv ==
  ASSUME Inv, NEW w \in Worker, Server!Fail(w)
  PROVE  Inv'
<1>1. PICK o, l : o \in Does[w] /\ worker[w] = [op |-> o, todo |-> l] /\ Promise(o, l, db)
  BY Under DEF Server!Fail, Server!Executing, Server!At
<1>2. Server!Executing(w) /\ db' = db
  BY DEF Server!Fail
<1>3. CASE Server!Sql(w).vital
  <2>1. Server!Error(w)
    BY <1>3 DEF Server!Fail, Server!Errs
  <2>. QED
    BY <1>1, <1>2, <2>1, Errors
<1>4. CASE ~Server!Sql(w).vital
  <2>1. Server!Proceed(w)
    BY <1>4 DEF Server!Fail
  <2>2. \A t \in Presented(o) : Gone(t, db)
    BY <1>1, <1>2, <1>4, Statements
  <2>. QED
    BY <1>1, <1>2, <2>1, <2>2, Skips
<1>. QED
  BY <1>3, <1>4

LEMMA GivesUp ==
  ASSUME Inv, NEW w \in Worker, Server!GiveUp(w)
  PROVE  Inv'
<1>1. PICK o, l : o \in Does[w] /\ worker[w] = [op |-> o, todo |-> l] /\ Promise(o, l, db)
  BY Under DEF Server!GiveUp, Server!At
<1>2. Server!Error(w) /\ db' = db
  BY DEF Server!GiveUp, Server!Errs
<1>. QED
  BY <1>1, <1>2, Errors

LEMMA Passes ==
  ASSUME Inv, NEW w \in Worker, Server!Pass(w)
  PROVE  Inv'
<1>1. PICK o, l : o \in Does[w] /\ worker[w] = [op |-> o, todo |-> l] /\ Promise(o, l, db)
  BY Under DEF Server!Pass, Server!At
<1>2. Server!Proceed(w) /\ db' = db /\ Head(l).do = "catch"
  BY <1>1 DEF Server!Pass, Server!At
<1>3. \A t \in Presented(o) : Gone(t, db)
  BY <1>1, <1>2 DEF Promise, Call, Return, Spends
<1>. QED
  BY <1>1, <1>2, <1>3, Skips

\* Nothing is cached: no request looks at a cache or drops what is in it.
LEMMA NoCache ==
  ASSUME Inv, NEW w \in Worker
  PROVE  ~Server!View(w) /\ ~Server!Look(w) /\ ~Server!ReadRows(w) /\ ~Server!Store(w) /\ ~Server!Invalidate(w) /\ ~Server!Omit(w)
<1>1. ASSUME NEW do, Server!At(w, do)
      PROVE  do \in {"call", "where", "statement", "return", "catch"}
  <2>1. PICK o, l : o \in Does[w] /\ worker[w] = [op |-> o, todo |-> l] /\ Promise(o, l, db)
    BY <1>1, Under DEF Server!At
  <2>2. StepOk(o, Head(l), db)
    BY <2>1, ListParts DEF Promise
  <2>3. Head(l).do = do
    BY <1>1, <2>1 DEF Server!At
  <2>. QED
    BY <2>2, <2>3 DEF StepOk, SimpleOk
<1>2. ~Server!View(w)
  BY DEF Server!View, Key
<1>. QED
  BY <1>1, <1>2 DEF Server!Look, Server!ReadRows, Server!Store, Server!Invalidate, Server!Omit

LEMMA StepInv == Inv /\ [Server!Next]_(Server!vars) => Inv'
<1>. SUFFICES ASSUME Inv, [Server!Next]_(Server!vars) PROVE Inv'
  OBVIOUS
<1>1. ASSUME NEW w \in Worker, Server!Begin(w) \/ Server!View(w) \/ Server!Step(w)
      PROVE  Inv'
  BY <1>1, Begins, Expands, Executes, FailsInv, GivesUp, Passes, NoCache DEF Server!Step
<1>2. ASSUME NEW k \in Key, Server!Evict(k)
      PROVE  Inv'
  BY <1>2 DEF Key
<1>3. CASE UNCHANGED Server!vars
  BY <1>3 DEF Server!vars, Inv, Held, Server!Idle
<1>. QED
  BY <1>1, <1>2, <1>3 DEF Server!Next

----------------------------------------------------------------------------
\* Theorems

\* A request under way only has steps to come that its handler may take, and has spent the
\* tokens it shows before it goes on; the rows hold no token that is spent.
THEOREM PromisesHold == Spec => []Inv
<1>1. Server!Init => Inv
  BY InitInv
<1>2. Inv /\ [Server!Next]_(Server!vars) => Inv'
  BY StepInv
<1>. QED
  BY <1>1, <1>2, PTL DEF Spec, Server!Spec

\* Whoever shows a token - of an e-mail, or a pending token of the API - and gets a password,
\* a validated account, a secret or an access token for it gets it when nobody can use the token
\* any more, however many requests show the same token at once and whichever statements fail
\* (ConsumeToken, ConsumePendingToken).
THEOREM SpentBefore == Spec => SpentFirst
<1>1. ASSUME Inv, NEW w \in Worker, Server!Execute(w), Given(db') # Given(db), NEW t \in Presented(worker[w].op)
      PROVE  ~Usable(t, db)
  <2>1. PICK o, l : o \in Does[w] /\ worker[w] = [op |-> o, todo |-> l] /\ Promise(o, l, db)
    BY <1>1, Under DEF Server!Execute, Server!Executing, Server!At
  <2>2. db' = Server!Effect(Server!Sql(w)) /\ Server!Executing(w)
    BY <1>1 DEF Server!Execute
  <2>3. Gone(t, db)
    BY <1>1, <2>1, <2>2, Statements
  <2>. QED
    BY <2>3 DEF Gone
<1>2. Inv => [\A w \in Worker : Server!Execute(w) /\ Given(db') # Given(db) =>
                \A t \in Presented(worker[w].op) : ~Usable(t, db)]_vars
  BY <1>1
<1>. QED
  BY PromisesHold, <1>2, PTL DEF SpentFirst

\* Where nobody confirms an authenticator app or switches second factors off, who has had an app
\* all the time is signed in, on the site, in the administration or in the API, only by a request
\* that brought a code of it or a passkey, whatever the other requests of his browser do to its
\* session in the meantime (LoginHandler, mfaChallenge, passkeyLogin, oauthCallback, authMFA).
THEOREM SecondFactorNeeded == Lasting => (Spec => SecondFactor)
<1>. SUFFICES ASSUME Lasting PROVE Spec => SecondFactor
  OBVIOUS
<1>1. ASSUME Inv, NEW w \in Worker, NEW u \in Entered(w), HasApp(u)
      PROVE  Brought(worker[w].op, u, db)
  <2>1. Server!Execute(w) /\ Server!At(w, "where")
    BY <1>1 DEF Entered
  <2>2. PICK o, l : o \in Does[w] /\ worker[w] = [op |-> o, todo |-> l] /\ Promise(o, l, db)
    BY <1>1, <2>1, Under DEF Server!At
  <2>3. Head(l).do = "where" /\ Server!Now(w) = Head(l)
    BY <2>1, <2>2 DEF Server!At, Server!Now
  <2>4. WhereOk(o, Head(l).op, db)
    BY <2>2, <2>3, ListParts DEF Promise, StepOk, SimpleOk
  <2>5. Lawful(o, u, db)
    BY <1>1, <2>1, <2>2, <2>3, <2>4 DEF Entered, WhereOk
  <2>6. AppIn(u, db)
    BY <1>1 DEF HasApp, AppIn
  <2>. QED
    BY <2>2, <2>5, <2>6 DEF Lawful
<1>2. Inv => [\A w \in Worker : \A u \in Entered(w) : HasApp(u) =>
       LET op == worker[w].op IN
       \/ op[1] \in {"mfaChallenge", "apiMFA"} /\ op[3] = The("totp", u, db)
       \/ op[1] \in {"finishAssertion", "passkeyFinish"}]_vars
  BY <1>1 DEF Brought
<1>. QED
  BY PromisesHold, <1>2, PTL DEF SecondFactor

============================================================================
