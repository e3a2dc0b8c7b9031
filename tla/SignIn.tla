--------------------------------- MODULE SignIn ---------------------------------
(***************************************************************************)
(* Accounts and how one gets into them: passwords, codes of an             *)
(* authenticator app, passkeys and providers, on the site, in the          *)
(* administration and in the API (src/internal/auth, controllers/auth,     *)
(* user, api).  A request loads the session of its browser when it begins  *)
(* and each time saves all of it.                                          *)
(***************************************************************************)
EXTENDS Integers, FiniteSets, Steps

CONSTANTS None, Worker, Start, Does, MaxChanges, MaxFaults

\* What may be asked for; the first component of op.
Request ==
  {"login", "mfaChallenge", "logout", "passkeyChallenge", "finishAssertion", "passkeyBegin", "passkeyFinish",
   "securityPasskey", "totpBegin", "totpConfirm", "totpDisable", "verify", "reset", "resetRequest", "resend",
   "apiLogin", "apiMFA", "apiRefresh", "apiSettings", "apiTotpBegin", "apiTotpConfirm", "credential",
   "newCredential", "deleteCredential", "oauth", "oauthCallback", "profile", "password", "avatar", "newUser",
   "userForm", "userDelete", "settings"}
ASSUME SignInDoesAssumption == \A w \in Worker : \A op \in Does[w] : op[1] \in Request
ASSUME SignInStartAssumption == \A rows \in Start : \A r \in rows : r[1] # "spent"

VARIABLES db, cached, worker, changes, faults, doubtful

vars == <<db, cached, worker, changes, faults, doubtful>>

\* Rows: <<table, key, columns>>.  A password and its hash are one value; a code is the
\* secret it is right for; a browser, a token and an issued JWT are names, of which a request
\* issues its own.
Has(what, x, rows) == \E r \in rows : r[1] = what /\ r[2] = x
Of(what, x, rows) == {r \in rows : r[1] = what /\ r[2] = x}
The(what, x, rows) == (CHOOSE r \in Of(what, x, rows) : TRUE)[3]
Setting(rows) == The("settings", "general", rows)

\* A row with some of its columns set.
Over(columns, row) == [c \in DOMAIN columns \cup DOMAIN row |-> IF c \in DOMAIN columns THEN columns[c] ELSE row[c]]

\* A statement that a unique index forbids.
Fails == Needing({{}}, Statement)

\* gorm Save; a name or an e-mail, the empty one too, is that of one user.
Put(what, x, row, rows) ==
  <<IF what = "user" /\ \E r \in rows : r[1] = "user" /\ r[2] # x /\ (r[3].name = row.name \/ r[3].email = row.email)
    THEN Fails ELSE Write(Of(what, x, rows), {<<what, x, row>>})>>
Set(x, columns, rows) ==
  IF Has("user", x, rows) THEN Put("user", x, Over(columns, The("user", x, rows)), rows) ELSE <<Statement>>
\* gorm Create.  No pending token is made twice: they are random.
Taken(what, x, rows) == Has(what, x, rows) \/ (what = "pending" /\ Has("spent", x, rows))
Create(what, x, row, rows) == <<IF Taken(what, x, rows) THEN Fails ELSE Link({<<what, x, row>>})>>
SetUser(x, columns) == Where(<<"set", x, columns>>)
SaveRow(what, x, row) == Where(<<"put", what, x, row>>)
CreateRow(what, x, row) == Where(<<"create", what, x, row>>)
DeleteRow(what, x) == Where(<<"delete", what, x>>)

----------------------------------------------------------------------------
\* Sessions (user.Service)

NoSession == [user |-> None, pending |-> None, context |-> "frontend", secret |-> None,
              ceremony |-> None, oauth |-> FALSE, back |-> "frontend"]
SessionOf(b, rows) == IF Has("session", b, rows) THEN The("session", b, rows) ELSE NoSession
SaveSession(b, s) == SaveRow("session", b, s)

\* SetPendingMFA and ClearPendingMFA: a save for each value.
SetPendingMFA(b, s, u, context) ==
  <<SaveSession(b, [s EXCEPT !.pending = u]), SaveSession(b, [s EXCEPT !.pending = u, !.context = context])>>
ClearPendingMFA(b, s) ==
  LET t == [s EXCEPT !.pending = None]
  IN <<Where(<<"try", "session", b, t>>), Where(<<"try", "session", b, [t EXCEPT !.context = "frontend"]>>)>>

\* completeFrontendLogin: the user is in the session before anyone looks whether he exists.
Register(u) == <<Where(<<"register", u>>)>>
CompleteLogin(b, s, u) ==
  <<Where(<<"enter", b, [s EXCEPT !.user = u], u>>)>> \o Register(u) \o <<Call(<<"exists", u>>)>>
Exists(u, rows) == When(~Has("user", u, rows), <<Return>>)

----------------------------------------------------------------------------
\* Signing in

\* AuthenticateLocal.
AuthenticateLocal(name, password, rows) ==
  {r[2] : r \in {q \in rows : q[1] = "user" /\ q[3].name = name /\ q[3].hash = password /\ q[3].status = "active"}}

\* UserRequiresMFA and VerifyUserTOTP.
UserRequiresMFA(u, rows) == Setting(rows).totp /\ Has("totp", u, rows)
VerifyUserTOTP(u, code, rows) == Has("totp", u, rows) /\ The("totp", u, rows) = code

Login(b, name, password, where, rows) ==
  When(where = "admin" \/ Setting(rows).login,
       <<Call(<<"authenticate", b, SessionOf(b, rows), name, password, where>>)>>)

\* Whoever may enter: login of the site and LoginHandler of the administration.
Authenticate(b, s, name, password, where, rows) ==
  LET may == {u \in AuthenticateLocal(name, password, rows) :
                IF where = "admin" THEN Has("admin", u, rows)
                ELSE The("user", u, rows).validated /\ ~The("user", u, rows).locked}
  IN TheFirst(may, LAMBDA u : <<Call(<<IF where = "admin" THEN "enterAdmin" ELSE "enterSite", b, s, u, where>>)>>)

\* Mutant: no second factor.
EnterSiteAtOnce(b, s, u, context, rows) == CompleteLogin(b, s, u)

EnterSite(b, s, u, context, rows) ==
  IF UserRequiresMFA(u, rows) THEN SetPendingMFA(b, s, u, context) ELSE CompleteLogin(b, s, u)
EnterAdmin(b, s, u, rows) ==
  IF UserRequiresMFA(u, rows) THEN SetPendingMFA(b, s, u, "admin")
  ELSE Register(u) \o <<Where(<<"tryEnter", b, [s EXCEPT !.user = u], u>>)>>

\* mfaChallenge, with a code.
FinishPendingLogin(b, s) ==
  CompleteLogin(b, s, s.pending) \o ClearPendingMFA(b, [s EXCEPT !.user = s.pending])
MfaChallenge(b, code, rows) ==
  LET s == SessionOf(b, rows) IN When(s.pending # None, <<Call(<<"verifyCode", b, s, code>>)>>)
VerifyCode(b, s, code, rows) ==
  When(VerifyUserTOTP(s.pending, code, rows), FinishPendingLogin(b, s))

Logout(b) == <<DeleteRow("session", b)>>

----------------------------------------------------------------------------
\* Passkeys.  A ceremony is begun for one purpose and one user, and finished by a passkey.

Passkeys(u, rows) == {r[2] : r \in {q \in rows : q[1] = "passkey" /\ q[3] = u}}
BeginCeremony(b, s, kind, u) == <<SaveSession(b, [s EXCEPT !.ceremony = <<kind, u>>])>>
\* The deferred ClearWebAuthnSession, however what comes between ends.
Finishing(b, s, steps, rest) ==
  LET clear == Where(<<"try", "session", b, [s EXCEPT !.ceremony = None]>>)
  IN steps \o <<Catch(<<clear, Return>>), clear>> \o rest

\* BeginLoginAssertion and FinishLoginAssertion, for the one who awaits a second factor.
PasskeyChallenge(b, rows) ==
  LET s == SessionOf(b, rows) IN
  When(s.pending # None /\ Passkeys(s.pending, rows) # {}, BeginCeremony(b, s, "assert", s.pending))
FinishAssertion(b, k, rows) ==
  LET s == SessionOf(b, rows)  done == [s EXCEPT !.ceremony = None] IN
  When(s.pending # None /\ s.ceremony # None,
       Finishing(b, s, <<Call(<<"assertion", k, s.ceremony = <<"assert", s.pending>>, s.pending>>)>>,
                 FinishPendingLogin(b, done)))
\* The passkey must be one of the user's; its counter is written with all of its row.
Assertion(k, begun, u, rows) ==
  IF begun /\ k \in Passkeys(u, rows) THEN <<SaveRow("passkey", k, u)>> ELSE <<Return>>

\* passkeyLogin: BeginDiscoverableLogin and FinishDiscoverableLogin, for anyone.
PasskeyBegin(b, rows) == When(Setting(rows).passkeys, BeginCeremony(b, SessionOf(b, rows), "discover", None))
PasskeyFinish(b, k, u, rows) ==
  LET s == SessionOf(b, rows) IN
  When(Setting(rows).passkeys /\ s.ceremony # None,
       Finishing(b, s, <<Call(<<"assertion", k, s.ceremony = <<"discover", None>>, u>>)>>,
                 <<Call(<<"mayEnter", b, [s EXCEPT !.ceremony = None], u>>)>>))
MayEnter(b, s, u, rows) ==
  When(Has("user", u, rows) /\ The("user", u, rows).validated /\ ~The("user", u, rows).locked, CompleteLogin(b, s, u))

\* securityPasskey: BeginRegistration, FinishRegistration and SavePasskey, DeletePasskey.
RegisterPasskey(b, step, k, rows) ==
  LET s == SessionOf(b, rows) IN
  When(s.user # None /\ Has("user", s.user, rows) /\ Setting(rows).passkeys,
       CASE step = "begin" -> BeginCeremony(b, s, "register", s.user)
         [] step = "finish" ->
              When(s.ceremony # None,
                   Finishing(b, s, <<IF s.ceremony = <<"register", s.user>> THEN CreateRow("passkey", k, s.user) ELSE Return>>, <<>>))
         [] OTHER -> When(k \in Passkeys(s.user, rows), <<DeleteRow("passkey", k)>>))

----------------------------------------------------------------------------
\* Codes of an authenticator app.  An actor is <<"web", browser>> or <<"api", JWT>>.

\* ParseAccessToken: signed with the secret of now or the one before.
JwtUser(j, rows) ==
  LET api == The("api", "x", rows) IN
  IF \E r \in Of("jwt", j, rows) : r[3].secret \in {api.secret, api.prev} \ {None} THEN The("jwt", j, rows).user ELSE None
UserOf(actor, rows) == IF actor[1] = "web" THEN SessionOf(actor[2], rows).user ELSE JwtUser(actor[2], rows)

\* securityTOTP on the site.
TotpBegin(b, secret, rows) ==
  LET s == SessionOf(b, rows) IN
  When(s.user # None /\ Setting(rows).totp, <<SaveSession(b, [s EXCEPT !.secret = secret])>>)
TotpConfirm(b, code, rows) ==
  LET s == SessionOf(b, rows) IN
  When(s.user # None /\ Setting(rows).totp /\ s.secret # None /\ s.secret = code,
       <<SaveRow("totp", s.user, s.secret), Where(<<"try", "session", b, [s EXCEPT !.secret = None]>>)>>)
TotpDisable(actor, code, rows) ==
  LET u == UserOf(actor, rows)  b == actor[2]  s == SessionOf(b, rows) IN
  When(u # None /\ (actor[1] = "web" => Setting(rows).totp) /\ VerifyUserTOTP(u, code, rows),
       <<DeleteRow("totp", u)>>
       \o When(actor[1] = "web", <<Where(<<"try", "session", b, [s EXCEPT !.secret = None]>>)>>))

----------------------------------------------------------------------------
\* Tokens

\* ConsumeToken and ConsumePendingToken: read, then marked or deleted.
ConsumeToken(t, type, rows) ==
  LET found == {r \in Of("token", t, rows) : r[3].type = type /\ ~r[3].used} IN
  IF found = {} THEN <<Return>>
  ELSE <<SaveRow("token", t, [type |-> type, user |-> (CHOOSE r \in found : TRUE)[3].user, used |-> TRUE])>>
\* Mutant: an error of the deletion is ignored.
ConsumePendingAnyway(t, kind, rows) ==
  IF \E r \in Of("pending", t, rows) : r[3].kind = kind THEN <<Ignored(Delete(Of("pending", t, rows)))>> ELSE <<Return>>

ConsumePending(t, kind, rows) ==
  IF \E r \in Of("pending", t, rows) : r[3].kind = kind THEN <<Where(<<"spend", t>>)>> ELSE <<Return>>
\* A deletion; that the token has been there is history.
Spend(t, rows) == <<Write(Of("pending", t, rows), {<<"spent", t, TRUE>>})>>

\* verify and resetSubmit, and authVerifyConfirm and authPasswordResetConfirm.
Redeem(t, type, columns, rows) ==
  LET spent == ConsumeToken(t, type, rows)
  IN spent \o When(spent # <<Return>>, <<SetUser(The("token", t, rows).user, columns)>>)

IssueToken(t, type, u) == <<CreateRow("token", t, [type |-> type, user |-> u, used |-> FALSE])>>
\* resetRequest on the site asks for more than the API does.
ResetRequest(where, email, t, rows) ==
  LET found == {r \in rows : /\ r[1] = "user" /\ r[3].email = email
                             /\ where = "api" \/ (r[3].status = "active" /\ r[3].validated)}
  IN TheFirst(found, LAMBDA r : IssueToken(t, "reset", r[2]))
EnsureVerifyToken(u, t, rows) ==
  When(~\E r \in rows : r[1] = "token" /\ r[3] = [type |-> "verify", user |-> u, used |-> FALSE], IssueToken(t, "verify", u))
VerifyResend(email, t, rows) ==
  TheFirst({r[2] : r \in {q \in rows : q[1] = "user" /\ q[3].email = email /\ ~q[3].validated}},
        LAMBDA u : <<Call(<<"ensureToken", u, t>>)>>)

----------------------------------------------------------------------------
\* The API.  What it issues is known by name: an access token j, a pending token t.

IssuePending(t, kind, u, secret) == CreateRow("pending", t, [kind |-> kind, user |-> u, secret |-> secret])

\* IssueAccessToken, then IssueRefreshToken, whose error is ignored.
IssueLoginTokens(u, t, j) ==
  <<Call(<<"issue", u, j>>), IssuePending(t, "refresh", u, None), Catch(<<>>)>>
ApiLogin(name, password, t, j, rows) ==
  When(Setting(rows).login, <<Call(<<"apiAuthenticate", name, password, t, j>>)>>)
ApiAuthenticate(name, password, t, j, rows) ==
  TheFirst({u \in AuthenticateLocal(name, password, rows) : The("user", u, rows).validated /\ ~The("user", u, rows).locked},
        LAMBDA u : <<Call(<<"apiEnter", u, t, j>>)>>)
ApiEnter(u, t, j, rows) ==
  IF UserRequiresMFA(u, rows) THEN <<IssuePending(t, "mfa", u, None)>> ELSE Register(u) \o IssueLoginTokens(u, t, j)

\* authMFA: the token is gone before the code is looked at.
ApiMFA(t, code, t2, j, rows) ==
  LET spent == ConsumePending(t, "mfa", rows)
  IN spent \o When(spent # <<Return>>, <<Call(<<"apiCode", The("pending", t, rows).user, code, t2, j>>)>>)
ApiCode(u, code, t, j, rows) ==
  When(VerifyUserTOTP(u, code, rows), <<Call(<<"exists", u>>)>> \o Register(u) \o IssueLoginTokens(u, t, j))

\* authRefresh, RefreshUserID.
ApiRefresh(t, t2, j, rows) ==
  LET spent == ConsumePending(t, "refresh", rows)
  IN spent \o When(spent # <<Return>>,
       LET u == The("pending", t, rows).user IN <<Call(<<"exists", u>>)>> \o IssueLoginTokens(u, t2, j))

\* EnsureJWTSecret: a new one, named by the token that needs it, if there is none.
Issue(u, j, rows) ==
  LET secret == The("api", "x", rows).secret  fresh == <<"secret", j>> IN
  IF secret # None THEN <<Where(<<"sign", j, u, secret>>)>>
  ELSE <<Call(<<"saveSecret", fresh, None>>), Where(<<"sign", j, u, fresh>>)>>
Sign(j, u, secret, rows) == Create("jwt", j, [user |-> u, secret |-> secret], rows)
\* saveJWTSecret.
SaveSecret(secret, prev, rows) == <<SaveRow("api", "x", [secret |-> secret, prev |-> prev])>>

\* apiSettings: what was loaded first, with the old secret in it, is saved last.
ApiSettings(rotate, secret, rows) ==
  LET save == <<Call(<<"saveApi", The("api", "x", rows)>>)>>
  IN When(rotate, <<Call(<<"rotate", secret>>), Catch(save)>>) \o save
RotateJWTSecret(secret, rows) == <<Call(<<"saveSecret", secret, The("api", "x", rows).secret>>)>>
SaveSettingsData(data, rows) ==
  LET there == The("api", "x", rows)
      merged == [secret |-> IF data.secret # None THEN data.secret ELSE there.secret,
                 prev |-> IF data.prev # None THEN data.prev ELSE there.prev]
      fresh == <<"secret", "form">>
  IN IF merged.secret # None THEN <<SaveRow("api", "x", merged)>>
     ELSE <<Call(<<"saveSecret", fresh, None>>), SaveRow("api", "x", [merged EXCEPT !.secret = fresh])>>

\* authTOTPBegin and authTOTPConfirm.
ApiTotpBegin(j, secret, t, rows) ==
  LET u == JwtUser(j, rows) IN When(u # None /\ Setting(rows).totp, <<IssuePending(t, "totp", u, secret)>>)
ApiTotpConfirm(j, t, code, rows) ==
  LET u == JwtUser(j, rows)  spent == ConsumePending(t, "totp", rows) IN
  When(u # None, spent \o When(spent # <<Return>>,
    LET row == The("pending", t, rows) IN When(row.user = u /\ row.secret = code, <<SaveRow("totp", u, code)>>)))

\* Credentials of the API: all columns as they were loaded, with the new ones.
CredentialForm(c, status, key, rows) ==
  IF ~Has("credential", c, rows) THEN <<Return>>
  ELSE LET row == The("credential", c, rows) IN
       <<SaveRow("credential", c, [hash |-> IF key # None THEN key ELSE row.hash,
           status |-> CASE status = "toggle" -> IF row.status = "active" THEN "inactive" ELSE "active"
                        [] status = None -> row.status [] OTHER -> status])>>
IssueCredential(c, key) == <<CreateRow("credential", c, [hash |-> key, status |-> "active"])>>

----------------------------------------------------------------------------
\* Providers

BeginOAuth(b, back, rows) ==
  LET s == SessionOf(b, rows)  t == [s EXCEPT !.oauth = TRUE] IN
  When((back = "admin" \/ Setting(rows).login) /\ Setting(rows).provider,
       <<SaveSession(b, t), Where(<<"try", "session", b, [t EXCEPT !.back = back]>>)>>)

\* oauthCallback and CompleteOAuth; gu is what the provider says of its user.
OauthCallback(b, gu, new, rows) ==
  LET s == SessionOf(b, rows) IN
  When(Setting(rows).provider /\ s.oauth, <<Call(<<"findUser", b, s, gu, new>>)>>)

\* updateOAuthUserProfile: where the provider knows a name or an e-mail that is missing, all
\* that was read is written back with it; then SyncSSOAvatar.
FillProfile(b, s, gu, u, row) ==
  LET t == [s EXCEPT !.oauth = FALSE]
      filled == [row EXCEPT !.named = @ \/ gu.named, !.email = IF @ = None THEN gu.email ELSE @] IN
  When(filled # row, <<SaveRow("user", u, filled)>>)
  \o When(gu.avatar # None, <<SetUser(u, [sso |-> gu.avatar])>>)
  \o <<Where(<<"try", "session", b, t>>), Where(<<"try", "session", b, [t EXCEPT !.back = "frontend"]>>),
       Call(<<"allowed", b, [t EXCEPT !.back = "frontend"], u, row, s.back>>)>>

\* Mutant: whoever has the e-mail comes first.
FindByMailFirst(b, s, gu, new, rows) ==
  LET known == {r \in rows : gu.email # None /\ r[1] = "user" /\ r[3].email = gu.email}  r == CHOOSE q \in known : TRUE IN
  IF known # {} THEN FillProfile(b, s, gu, r[2], r[3]) ELSE <<Call(<<"findMail", b, s, gu, new>>)>>

\* findOrCreateOAuthUser: the identity, the e-mail, or a new user.
FindOrCreateOAuthUser(b, s, gu, new, rows) ==
  LET linked == Of("identity", gu.id, rows)  u == (CHOOSE r \in linked : TRUE)[3] IN
  IF linked = {} THEN <<Call(<<"findMail", b, s, gu, new>>)>>
  ELSE IF Has("user", u, rows) THEN FillProfile(b, s, gu, u, The("user", u, rows))
  ELSE <<Delete(linked), Call(<<"findMail", b, s, gu, new>>)>>
\* uniqueOAuthUsername.
FreeName(gu, rows) ==
  LET taken == {r[3].name : r \in {q \in rows : q[1] = "user"}}  numbered == [n \in 0..Cardinality(taken) |-> <<gu.nick, n>>]
  IN IF gu.nick \notin taken THEN gu.nick
     ELSE numbered[CHOOSE n \in DOMAIN numbered : numbered[n] \notin taken /\ \A m \in 0..(n - 1) : numbered[m] \in taken]

FindMail(b, s, gu, new, rows) ==
  LET known == {r \in rows : gu.email # None /\ r[1] = "user" /\ r[3].email = gu.email}  r == CHOOSE q \in known : TRUE IN
  IF known # {} THEN <<CreateRow("identity", gu.id, r[2])>> \o FillProfile(b, s, gu, r[2], r[3])
  ELSE LET row == [name |-> FreeName(gu, rows), named |-> gu.named, email |-> gu.email, hash |-> None, status |-> "active",
                   validated |-> TRUE, locked |-> FALSE, auth |-> "provider", avatar |-> None, sso |-> None]
       IN <<SaveRow("user", new, row)>> \o Register(new) \o <<CreateRow("identity", gu.id, new)>>
          \o FillProfile(b, s, gu, new, row)
\* Locked or not validated: as the user was when he was found.
Allowed(b, s, u, row, back, rows) ==
  When(row.validated /\ ~row.locked /\ IF back = "admin" THEN Has("admin", u, rows) ELSE Setting(rows).login,
       <<Call(<<"enterSite", b, s, u, back>>)>>)

----------------------------------------------------------------------------
\* Profiles and accounts

\* UpdateProfileIdentity: free as far as can be seen; then given and family name, of which the
\* model knows whether both are there.
UpdateProfileIdentity(actor, name, email, named, rows) ==
  LET u == UserOf(actor, rows) IN
  When(u # None /\ Has("user", u, rows)
       /\ ~\E r \in rows : r[1] = "user" /\ r[2] # u /\ (r[3].name = name \/ (email # None /\ r[3].email = email)),
       <<SetUser(u, [name |-> name, email |-> email]), SetUser(u, [named |-> named])>>)

\* UpdatePassword: those who have a local password must show it.
HasLocalPassword(row) == row.hash # None /\ row.auth \in {None, "local"}
UpdatePassword(actor, old, new, rows) ==
  LET u == UserOf(actor, rows) IN
  When(u # None /\ Has("user", u, rows),
    LET row == The("user", u, rows) IN
    When(HasLocalPassword(row) => old = row.hash,
         <<SetUser(u, IF row.auth = None THEN [hash |-> new, auth |-> "local"] ELSE [hash |-> new])>>))
\* UpdateAvatarURL and ClearAvatar.
Avatar(actor, url, rows) ==
  LET u == UserOf(actor, rows) IN When(u # None, <<SetUser(u, [avatar |-> url])>>)

CreateLocalUser(u, row) == <<SaveRow("user", u, row)>> \o Register(u)
\* userForm of the administration: all columns as they were loaded, with the new ones.
UserForm(u, columns, t, rows) ==
  When(Has("user", u, rows),
    LET row == Over(columns, The("user", u, rows)) IN
    <<SaveRow("user", u, row)>> \o When(~row.validated, <<Call(<<"ensureToken", u, t>>)>>))
\* userDelete leaves codes, passkeys, tokens and sessions.
UserDelete(u) == <<DeleteRow("member", u), Where(<<"unlink", u>>), DeleteRow("user", u)>>

----------------------------------------------------------------------------

Plan(op, rows, c) ==
  CASE op[1] = "put" -> Put(op[2], op[3], op[4], rows)
    [] op[1] = "try" -> <<Ignored(Put(op[2], op[3], op[4], rows)[1])>>
    [] op[1] = "create" -> Create(op[2], op[3], op[4], rows)
    [] op[1] = "set" -> Set(op[2], op[3], rows)
    [] op[1] = "delete" -> <<Delete(Of(op[2], op[3], rows))>>
    [] op[1] = "spend" -> Spend(op[2], rows)
    [] op[1] = "enter" -> Put("session", op[2], op[3], rows)
    [] op[1] = "tryEnter" -> <<Ignored(Put("session", op[2], op[3], rows)[1])>>
    [] op[1] = "register" -> <<Ignored(IF Has("user", op[2], rows) THEN Link({<<"member", op[2], "registered">>}) ELSE Fails)>>
    [] op[1] = "exists" -> Exists(op[2], rows)
    [] op[1] = "login" -> Login(op[2], op[3], op[4], op[5], rows)
    [] op[1] = "authenticate" -> Authenticate(op[2], op[3], op[4], op[5], op[6], rows)
    [] op[1] = "enterSite" -> EnterSite(op[2], op[3], op[4], op[5], rows)
    [] op[1] = "enterAdmin" -> EnterAdmin(op[2], op[3], op[4], rows)
    [] op[1] = "mfaChallenge" -> MfaChallenge(op[2], op[3], rows)
    [] op[1] = "verifyCode" -> VerifyCode(op[2], op[3], op[4], rows)
    [] op[1] = "logout" -> Logout(op[2])
    [] op[1] = "passkeyChallenge" -> PasskeyChallenge(op[2], rows)
    [] op[1] = "finishAssertion" -> FinishAssertion(op[2], op[3], rows)
    [] op[1] = "assertion" -> Assertion(op[2], op[3], op[4], rows)
    [] op[1] = "passkeyBegin" -> PasskeyBegin(op[2], rows)
    [] op[1] = "passkeyFinish" -> PasskeyFinish(op[2], op[3], op[4], rows)
    [] op[1] = "mayEnter" -> MayEnter(op[2], op[3], op[4], rows)
    [] op[1] = "securityPasskey" -> RegisterPasskey(op[2], op[3], op[4], rows)
    [] op[1] = "totpBegin" -> TotpBegin(op[2], op[3], rows)
    [] op[1] = "totpConfirm" -> TotpConfirm(op[2], op[3], rows)
    [] op[1] = "totpDisable" -> TotpDisable(op[2], op[3], rows)
    [] op[1] = "verify" -> Redeem(op[2], "verify", [validated |-> TRUE], rows)
    [] op[1] = "reset" -> Redeem(op[2], "reset", [hash |-> op[3]], rows)
    [] op[1] = "resetRequest" -> ResetRequest(op[2], op[3], op[4], rows)
    [] op[1] = "ensureToken" -> EnsureVerifyToken(op[2], op[3], rows)
    [] op[1] = "resend" -> VerifyResend(op[2], op[3], rows)
    [] op[1] = "apiLogin" -> ApiLogin(op[2], op[3], op[4], op[5], rows)
    [] op[1] = "apiAuthenticate" -> ApiAuthenticate(op[2], op[3], op[4], op[5], rows)
    [] op[1] = "apiEnter" -> ApiEnter(op[2], op[3], op[4], rows)
    [] op[1] = "apiMFA" -> ApiMFA(op[2], op[3], op[4], op[5], rows)
    [] op[1] = "apiCode" -> ApiCode(op[2], op[3], op[4], op[5], rows)
    [] op[1] = "apiRefresh" -> ApiRefresh(op[2], op[3], op[4], rows)
    [] op[1] = "issue" -> Issue(op[2], op[3], rows)
    [] op[1] = "sign" -> Sign(op[2], op[3], op[4], rows)
    [] op[1] = "saveSecret" -> SaveSecret(op[2], op[3], rows)
    [] op[1] = "apiSettings" -> ApiSettings(op[2], op[3], rows)
    [] op[1] = "rotate" -> RotateJWTSecret(op[2], rows)
    [] op[1] = "saveApi" -> SaveSettingsData(op[2], rows)
    [] op[1] = "apiTotpBegin" -> ApiTotpBegin(op[2], op[3], op[4], rows)
    [] op[1] = "apiTotpConfirm" -> ApiTotpConfirm(op[2], op[3], op[4], rows)
    [] op[1] = "credential" -> CredentialForm(op[2], op[3], op[4], rows)
    [] op[1] = "newCredential" -> IssueCredential(op[2], op[3])
    [] op[1] = "deleteCredential" -> <<DeleteRow("credential", op[2])>>
    [] op[1] = "oauth" -> BeginOAuth(op[2], op[3], rows)
    [] op[1] = "oauthCallback" -> OauthCallback(op[2], op[3], op[4], rows)
    [] op[1] = "findUser" -> FindOrCreateOAuthUser(op[2], op[3], op[4], op[5], rows)
    [] op[1] = "findMail" -> FindMail(op[2], op[3], op[4], op[5], rows)
    [] op[1] = "unlink" -> <<Delete({r \in rows : r[1] = "identity" /\ r[3] = op[2]})>>
    [] op[1] = "allowed" -> Allowed(op[2], op[3], op[4], op[5], op[6], rows)
    [] op[1] = "profile" -> UpdateProfileIdentity(op[2], op[3], op[4], op[5], rows)
    [] op[1] = "password" -> UpdatePassword(op[2], op[3], op[4], rows)
    [] op[1] = "avatar" -> Avatar(op[2], op[3], rows)
    [] op[1] = "newUser" -> CreateLocalUser(op[2], op[3])
    [] op[1] = "userForm" -> UserForm(op[2], op[3], op[4], rows)
    [] op[1] = "userDelete" -> UserDelete(op[2])
    [] op[1] = "settings" -> <<SaveRow("settings", "general", Over(op[2], Setting(rows)))>>

Key == {}
Derive(k, rows) == None
Asked(k, rows) == TRUE
Server == INSTANCE Requests
Spec == Server!Spec

----------------------------------------------------------------------------
\* Properties

\* Who has had an authenticator app all the time is signed in only by a request that brought
\* a code of it or a passkey, by whatever way he came and whatever other requests of his
\* browser did to its session.
Entered(w) ==
  IF ~(Server!Execute(w) /\ Server!At(w, "where")) THEN {}
  ELSE LET op == Server!Now(w).op IN
       CASE op[1] \in {"enter", "tryEnter"} -> {op[4]}
         [] op[1] = "sign" /\ worker[w].op[1] # "apiRefresh" -> {op[3]}
         [] OTHER -> {}
HasApp(u) ==
  Setting(db).totp /\ Has("totp", u, db) /\ \A rows \in Start : Of("totp", u, rows) = Of("totp", u, db)
SecondFactor ==
  [][\A w \in Worker : \A u \in Entered(w) : HasApp(u) =>
       LET op == worker[w].op IN
       \/ op[1] \in {"mfaChallenge", "apiMFA"} /\ op[3] = The("totp", u, db)
       \/ op[1] \in {"finishAssertion", "passkeyFinish"}]_vars

\* What a token is good for - a password, a validated account, a secret, an access token - is
\* given only when nobody can use it any more: the request that fails to spend it, and the one
\* that comes second, change nothing.
Presented(op) ==
  CASE op[1] \in {"verify", "reset"} -> {<<"token", op[2]>>}
    [] op[1] \in {"apiMFA", "apiRefresh"} -> {<<"pending", op[2]>>}
    [] op[1] = "apiTotpConfirm" -> {<<"pending", op[3]>>}
    [] OTHER -> {}
Usable(t, rows) == \E r \in Of(t[1], t[2], rows) : t[1] = "token" => ~r[3].used
Given(rows) == {r \in rows : r[1] \in {"user", "totp", "jwt"}}
SpentFirst ==
  [][\A w \in Worker : Server!Execute(w) /\ Given(db') # Given(db) =>
       \A t \in Presented(worker[w].op) : ~Usable(t, db)]_vars

\* Who comes by a provider enters the account that his identity there is linked to, however
\* often he comes at once and whoever has his e-mail by now - unless somebody deletes the
\* account, whose links go first.
Stays(u) == \A w \in Worker : <<"userDelete", u>> \notin Does[w]
OneAccount ==
  [][\A w \in Worker : \A u \in Entered(w) :
       worker[w].op[1] = "oauthCallback" /\ Has("user", u, db) /\ Stays(u) =>
         \A r \in Of("identity", worker[w].op[3].id, db) : r[3] = u]_vars

=============================================================================
