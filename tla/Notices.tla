-------------------------------- MODULE Notices --------------------------------
(***************************************************************************)
(* Notifications: destinations that subscribe to events (layer 1), the     *)
(* e-mail subscriptions of roles and users (layer 2), the events           *)
(* extensions add, and who is told when an event fires                     *)
(* (src/internal/notifications and its forms).  Who has access to the      *)
(* admin is decided by Access; here it is a row.                           *)
(***************************************************************************)
EXTENDS Integers, FiniteSets, Steps

CONSTANTS User, Email, NoEmail, Role, Group, CoreEvent, Event, Notice, Extension,
          None

\* SubscriptionFilters: the status, the category, an author who is the recipient.  Of an
\* event, args says which of the first two it meets and who the author is.
Filter == SUBSET {"status", "category", "self"}
NoFilter == {}

\* Which rows there are: users (active, locked, e-mail), who is in what, what a role
\* subscribes to (filter), what a user wants or has opted out of, events of extensions,
\* destinations (owner, active, last delivery) and their events.
NoticeRow ==
  ({"user"} \X User \X BOOLEAN \X BOOLEAN \X (Email \cup {NoEmail}))
  \cup ({"access"} \X User) \cup ({"userRole"} \X User \X Role)
  \cup ({"userGroup"} \X User \X Group) \cup ({"groupRole"} \X Group \X Role)
  \cup ({"roleSub"} \X Role \X Event \X Filter)
  \cup ({"userSub"} \X User \X Event \X BOOLEAN)
  \cup ({"extension"} \X Extension) \cup ({"extEvent"} \X Extension \X Event)
  \cup ({"notice"} \X Notice \X (User \cup {None}) \X BOOLEAN \X {"new", "sent", "error"})
  \cup ({"noticeEvent"} \X Notice \X Event) \cup {<<"mail">>} \cup ({"mailed"} \X Email \X Event)

HasAdminAccess(u, rows) == <<"access", u>> \in rows
Configured(rows) == <<"mail">> \in rows

----------------------------------------------------------------------------
\* Events

ExtensionEvents(rows) == {r[3] : r \in {q \in rows : q[1] = "extEvent"}}
SubscribableEventsFor(rows) == CoreEvent \cup ExtensionEvents(rows)
IsKnownSubscriptionEvent(e, rows) == e \in CoreEvent \/ e \in ExtensionEvents(rows)

\* syncNotificationEvents: the first event another extension has ends it.
SyncNotificationEvents(x, E, rows) ==
  <<Delete({"extEvent"} \X {x} \X Event)>>
  \o ForEach(E, LAMBDA e : <<Insert(<<"extEvent", x, e>>, {"extEvent"} \X Extension \X {e})>>)

ClearInactiveNotificationEvents(rows) ==
  <<Delete({r \in rows : r[1] = "extEvent" /\ <<"extension", r[2]>> \notin rows})>>

----------------------------------------------------------------------------
\* Subscriptions of roles and users

\* Mutant: the members of a group are forgotten.
DirectMembers(r, rows) == {u \in User : <<"userRole", u, r>> \in rows}

\* userIDsWithRole and roleIDsForUser: directly, and through groups.
UserIDsWithRole(r, rows) ==
  {u \in User : \/ <<"userRole", u, r>> \in rows
                \/ \E g \in Group : <<"userGroup", u, g>> \in rows /\ <<"groupRole", g, r>> \in rows}
RoleIDsForUser(u, rows) ==
  {r \in Role : \/ <<"userRole", u, r>> \in rows
                \/ \E g \in Group : <<"groupRole", g, r>> \in rows /\ <<"userGroup", u, g>> \in rows}

\* roleDefaultEventsForUser: the filter is not looked at.
RoleDefaults(u, rows) ==
  {r[3] : r \in {q \in rows : q[1] = "roleSub" /\ q[2] \in RoleIDsForUser(u, rows)}}

\* LoadUserProfileState: what is ticked in the user's profile.
LoadUserProfileState(u, rows) ==
  {e \in SubscribableEventsFor(rows) :
     IF \E b \in BOOLEAN : <<"userSub", u, e, b>> \in rows
     THEN <<"userSub", u, e, TRUE>> \in rows ELSE e \in RoleDefaults(u, rows)}

MatchFilters(f, args, u) == \A c \in f : IF c = "self" THEN args.author = u ELSE c \in args.meets

\* ReplaceRoleSubscriptionsWithFilters, the end of roleForm: one row after the other.
\* S is a set of events and filters (roleNotificationFiltersFromForm).
ReplaceRoleSubscriptions(r, S, rows) ==
  <<Delete({"roleSub"} \X {r} \X Event \X Filter)>>
  \o ForEach({s \in S : IsKnownSubscriptionEvent(s[1], rows)},
       LAMBDA s : <<Insert(<<"roleSub", r, s[1], s[2]>>, {"roleSub"} \X {r} \X {s[1]} \X Filter)>>)

\* roleDelete, as far as it is about members and subscriptions: an error of the last
\* statement is not looked at.
RoleDelete(r, rows) ==
  <<Delete({"groupRole"} \X Group \X {r}), Delete({"userRole"} \X User \X {r}),
    Ignored(Delete({"roleSub"} \X {r} \X Event \X Filter))>>

\* SaveUserSubscriptions (profileNotificationsPost, authPutNotifications): E is ticked.
\* What a role brings is only left out by opting out.
SaveUserSubscriptions(u, E, rows) ==
  LET wanted == E \cap SubscribableEventsFor(rows)
      defaults == RoleDefaults(u, rows)
  IN IF ~HasAdminAccess(u, rows) THEN <<Return>>
     ELSE ForEach(SubscribableEventsFor(rows), LAMBDA e :
       IF e \in wanted THEN <<Call(<<"upsert", u, e, TRUE>>)>>
       ELSE IF e \in defaults THEN <<Call(<<"upsert", u, e, FALSE>>)>>
       ELSE <<Delete({<<"userSub", u, e, b>> : b \in BOOLEAN})>>)

\* upsertUserSubscription: looks first, then creates or saves.
Upsert(u, e, on, rows) ==
  LET there == {<<"userSub", u, e, b>> : b \in BOOLEAN} IN
  IF there \cap rows = {} THEN <<Insert(<<"userSub", u, e, on>>, there)>>
  ELSE <<Save(there, <<"userSub", u, e, on>>)>>

----------------------------------------------------------------------------
\* Who is told

\* resolveEmailRecipients, before only one of several users with one address is kept.
ResolveEmailRecipients(e, args, rows) ==
  LET optOut == {u \in User : <<"userSub", u, e, FALSE>> \in rows}
      byRole == {u \in User \ optOut : \E q \in rows :
                   /\ q[1] = "roleSub" /\ q[3] = e
                   /\ u \in UserIDsWithRole(q[2], rows) /\ MatchFilters(q[4], args, u)}
      ids == byRole \cup {u \in User : <<"userSub", u, e, TRUE>> \in rows}
  IN {u \in ids : (\E m \in Email : <<"user", u, TRUE, FALSE, m>> \in rows) /\ HasAdminAccess(u, rows)}

\* notificationsForEvent: a destination without an owner is always told.
NotificationsForEvent(e, rows) ==
  {r \in rows : /\ r[1] = "notice" /\ r[4] /\ <<"noticeEvent", r[2], e>> \in rows
                /\ r[3] = None \/ HasAdminAccess(r[3], rows)}

\* recordDeliverySuccess and recordDeliveryFailure; an error here is not looked at.
RecordDelivery(n, ok) == <<Where(<<"delivery", n, IF ok THEN "sent" ELSE "error">>)>>
Delivery(n, how, rows) ==
  LET there == {r \in rows : r[1] = "notice" /\ r[2] = n}
  IN <<Ignored(Write(there, {[r EXCEPT ![5] = how] : r \in there}))>>

SendTest(n, ok) == RecordDelivery(n, ok)

\* DispatchEvent, with the destinations that can be reached.  Mail goes out only when it
\* is configured, and what cannot be delivered is only logged.
DispatchEvent(e, args, reachable, rows) ==
  ForEach({r[2] : r \in NotificationsForEvent(e, rows)}, LAMBDA n : RecordDelivery(n, n \in reachable))
  \o <<Call(<<"layer2", e, args>>)>>

\* dispatchLayer2: what is sent is outside of the database (mailed is external).
DispatchLayer2(e, args, rows) ==
  LET to == {r \in rows : r[1] = "user" /\ r[2] \in ResolveEmailRecipients(e, args, rows)}
  IN When(Configured(rows), ForEach({r[5] : r \in to}, LAMBDA m : <<Link({<<"mailed", m, e>>})>>))

----------------------------------------------------------------------------
\* Destinations.  owner is the account whose page it is, or None: any.

OwnedBy(n, owner, rows) == owner = None \/ \E r \in rows : r[1] = "notice" /\ r[2] = n /\ r[3] = owner

\* replaceNotificationEvents
ReplaceNotificationEvents(n, E) ==
  <<Delete({"noticeEvent"} \X {n} \X Event)>>
  \o ForEach(E, LAMBDA e : <<Insert(<<"noticeEvent", n, e>>, {<<"noticeEvent", n, e>>})>>)

\* notificationForm, for a new destination or one there is; user is the account chosen.  The mail of the site can be the
\* destination only when it is configured.
NotificationForm(new, n, owner, user, active, siteMail, E, rows) ==
  LET there == {r \in rows : r[1] = "notice" /\ r[2] = n}
      account == IF owner = None THEN user ELSE owner
  IN IF new # (there = {}) \/ ~(new \/ OwnedBy(n, owner, rows)) THEN <<Return>>
     ELSE IF siteMail /\ ~Configured(rows) THEN <<Return>>
     ELSE IF ~\E r \in rows : r[1] = "user" /\ r[2] = account THEN <<Return>>
     ELSE <<IF new THEN Insert(<<"notice", n, account, active, "new">>, {})
            ELSE Where(<<"saveNotice", n, <<"notice", n, account, active, (CHOOSE r \in there : TRUE)[5]>>>>)>>
          \o ReplaceNotificationEvents(n, E)
SaveNotice(n, row, rows) == <<Save({r \in rows : r[1] = "notice" /\ r[2] = n}, row)>>

\* notificationDelete: an error of the first statement is not looked at.
NotificationDelete(n, owner, rows) ==
  IF ~OwnedBy(n, owner, rows) THEN <<Return>>
  ELSE <<Ignored(Delete({"noticeEvent"} \X {n} \X Event)), Where(<<"deleteNotice", n>>)>>
DeleteNotice(n, rows) == <<Delete({r \in rows : r[1] = "notice" /\ r[2] = n})>>

\* notificationToggleStatus, with what it has read.
NotificationToggle(n, owner, rows) ==
  IF ~OwnedBy(n, owner, rows) THEN <<Return>>
  ELSE ForEach({r \in rows : r[1] = "notice" /\ r[2] = n}, LAMBDA r : <<Where(<<"toggleNotice", n, ~r[4]>>)>>)
ToggleNotice(n, on, rows) ==
  LET there == {r \in rows : r[1] = "notice" /\ r[2] = n}
  IN <<Write(there, {[r EXCEPT ![4] = on] : r \in there})>>

\* notificationTest
NotificationTest(n, owner, ok, rows) ==
  IF ~OwnedBy(n, owner, rows) THEN <<Return>> ELSE SendTest(n, ok)

=============================================================================
