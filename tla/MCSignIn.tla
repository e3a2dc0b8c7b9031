-------------------------------- MODULE MCSignIn --------------------------------
(***************************************************************************)
(* Instances of SignIn.                                                    *)
(***************************************************************************)
EXTENDS SignIn

CONSTANTS ann, bob, cat, am, bm, cm, pa, pb, pc, sa, sb, ka, kb, pic, a1, a2

Account(name, email, hash, auth) ==
  [name |-> name, named |-> FALSE, email |-> email, hash |-> hash, status |-> "active", validated |-> TRUE, locked |-> FALSE,
   auth |-> auth, avatar |-> None, sso |-> None]
Pending(kind, u, secret) == [kind |-> kind, user |-> u, secret |-> secret]
Token(type, u) == [type |-> type, user |-> u, used |-> FALSE]
Session(column, v) == [NoSession EXCEPT ![column] = v]

\* User 1 has an authenticator app and a passkey, and may enter the administration; user 2
\* comes by a provider; user 3 is not validated.  Every flow is under way in some browser.
Running ==
  {<<"user", 1, Account(ann, am, pa, "local")>>, <<"user", 2, Account(bob, None, None, "provider")>>,
   <<"user", 3, [Account(cat, cm, pc, None) EXCEPT !.validated = FALSE]>>,
   <<"admin", 1, TRUE>>, <<"totp", 1, sa>>, <<"passkey", "k", 1>>, <<"identity", "g", 2>>, <<"identity", "lost", 9>>,
   <<"session", "pending", Session("pending", 1)>>,
   <<"session", "assert", [Session("pending", 1) EXCEPT !.ceremony = <<"assert", 1>>]>>,
   <<"session", "discover", Session("ceremony", <<"discover", None>>)>>,
   <<"session", "oauth", Session("oauth", TRUE)>>, <<"session", "oauthAdmin", [Session("oauth", TRUE) EXCEPT !.back = "admin"]>>,
   <<"session", "in", [Session("user", 2) EXCEPT !.secret = sb]>>,
   <<"session", "ann", [Session("user", 1) EXCEPT !.ceremony = <<"register", 1>>]>>,
   <<"pending", "m", Pending("mfa", 1, None)>>, <<"pending", "r", Pending("refresh", 2, None)>>,
   <<"pending", "s", Pending("totp", 2, sb)>>, <<"jwt", "j", [user |-> 2, secret |-> ka]>>,
   <<"token", "v", Token("verify", 3)>>, <<"token", "p", Token("reset", 1)>>,
   <<"credential", "c", [hash |-> ka, status |-> "active"]>>, <<"api", "x", [secret |-> ka, prev |-> None]>>,
   <<"settings", "general", [login |-> TRUE, totp |-> TRUE, passkeys |-> TRUE, provider |-> TRUE]>>}
Databases == {Running}

Profile == [id |-> "g", email |-> bm, nick |-> bob, avatar |-> pic, named |-> FALSE]
Unknown == [id |-> "h", email |-> cm, nick |-> ann, avatar |-> None, named |-> FALSE]
Lost == [id |-> "lost", email |-> am, nick |-> ann, avatar |-> None, named |-> TRUE]
New == [id |-> "n", email |-> bm, nick |-> bob, avatar |-> None, named |-> TRUE]

Entering ==
  {<<"login", "in", ann, pa, "frontend">>, <<"login", "new", ann, pa, "admin">>, <<"login", "new", cat, pc, "frontend">>,
   <<"mfaChallenge", "pending", sa>>, <<"mfaChallenge", "pending", sb>>, <<"mfaChallenge", "in", sa>>, <<"mfaChallenge", "in", sb>>, <<"passkeyChallenge", "pending">>,
   <<"finishAssertion", "assert", "k">>, <<"passkeyBegin", "new">>, <<"passkeyFinish", "discover", "k", 1>>,
   <<"oauth", "new", "admin">>, <<"oauthCallback", "oauth", Profile, 4>>, <<"oauthCallback", "oauth", New, 4>>,
   <<"oauthCallback", "oauth", Lost, 4>>, <<"oauthCallback", "oauthAdmin", Unknown, 4>>,
   <<"apiLogin", ann, pa, "t1", "j1">>, <<"apiLogin", cat, pc, "t2", "j2">>, <<"apiMFA", "m", sa, "t3", "j3">>,
   <<"apiMFA", "t1", sa, "t3", "j3">>, <<"apiMFA", "t1", sb, "t3", "j3">>, <<"apiRefresh", "r", "t4", "j4">>, <<"verify", "v">>, <<"reset", "p", pb>>, <<"apiTotpConfirm", "j", "s", sb>>,
   <<"password", <<"web", "ann">>, pa, pb>>, <<"profile", <<"api", "j">>, bob, am, TRUE>>}
Managing ==
  {<<"login", "pending", bob, pb, "frontend">>, <<"logout", "pending">>, <<"oauthCallback", "oauthAdmin", Profile, 5>>,
   <<"oauthCallback", "in", New, 5>>, <<"oauthCallback", "oauthAdmin", New, 5>>, <<"oauthCallback", "oauthAdmin", Lost, 5>>,
   <<"apiMFA", "m", sb, "t5", "j5">>, <<"apiRefresh", "r", "t6", "j6">>, <<"verify", "v">>, <<"reset", "p", pc>>,
   <<"totpBegin", "in", sa>>, <<"totpConfirm", "in", sb>>, <<"totpDisable", <<"web", "ann">>, sa>>, <<"apiTotpBegin", "j", sb, "t7">>,
   <<"securityPasskey", "ann", "finish", "k2">>, <<"securityPasskey", "ann", "delete", "k">>, <<"securityPasskey", "in", "begin", None>>,
   <<"resetRequest", "web", cm, "t8">>, <<"resetRequest", "api", cm, "t8">>, <<"resend", cm, "t9">>,
   <<"profile", <<"web", "ann">>, ann, bm, FALSE>>, <<"password", <<"api", "j">>, None, pb>>, <<"avatar", <<"web", "in">>, pic>>,
   <<"newUser", 6, Account(bob, bm, pb, "local")>>, <<"userForm", 2, [email |-> bm, locked |-> TRUE], "t10">>,
   <<"userForm", 1, [validated |-> FALSE, hash |-> pb], "t10">>, <<"userDelete", 1>>, <<"userDelete", 3>>,
   <<"settings", [totp |-> FALSE]>>, <<"settings", [login |-> FALSE]>>, <<"apiSettings", TRUE, kb>>, <<"apiSettings", FALSE, None>>,
   <<"credential", "c", "toggle", None>>, <<"credential", "c", None, kb>>, <<"newCredential", "d", kb>>, <<"deleteCredential", "c">>}
Work == (a1 :> Entering) @@ (a2 :> Managing)


================================================================================
