------------------------------- MODULE MCAccess -------------------------------
(***************************************************************************)
(* Instances of Access.                                                    *)
(***************************************************************************)
EXTENDS Access

CONSTANTS u1, u2, administrator, manager, custom, installer, admins, public, registered,
          team, a1, a2

Permission == {"*", "users.write", "profiles.write", "shop"}
BuiltInRoles ==
  [r \in {administrator, manager} |->
     IF r = administrator THEN [allows |-> {"*"}, parents |-> {manager}]
     ELSE [allows |-> {"users.write"}, parents |-> {}]]
DefaultGroups == [g \in {admins} |-> administrator]

\* A new site, and one with an administrator and a user in a team that may edit profiles.
Fresh == {<<"user", u1, "active">>}
Running ==
  Links("user", {u1, u2}, {"active"}) \cup Links("role", {administrator, manager, custom}, {"active"})
  \cup Links("group", {admins, public, registered, team}, {"active"})
  \cup {<<"allow", administrator, "*">>, <<"allow", manager, "users.write">>,
        <<"allow", custom, "profiles.write">>, <<"inherits", administrator, manager>>, <<"gives", admins, administrator>>,
        <<"gives", team, custom>>, <<"member", u1, admins>>, <<"member", u2, team>>}
  \cup Links("member", {u1, u2}, {public}) \cup Links("revision", {1, 2}, {"done"})
Sites == {Fresh, Running}

Forms ==
  {<<"roleForm", custom, "inactive", {"shop"}, {"shop"}, {}>>,
   <<"roleForm", custom, "active", {"shop"}, {"users.write"}, {administrator}>>,
   <<"roleForm", manager, "inactive", {"shop"}, {}, {custom}>>,
   <<"roleForm", administrator, "active", {}, {}, {custom}>>}
RoleAdmin ==
  Forms \cup {<<"boot">>, <<"roleDelete", custom>>, <<"roleToggle", custom>>}
UserAdmin ==
  {<<"userForm", u2, u1, "inactive", {admins}, {manager}>>, <<"userForm", u1, u2, "active", {}, {manager}>>,
   <<"userToggle", u2, u1>>, <<"userDelete", u2, u1>>, <<"assignAdmin", u1>>, <<"login", u2>>,
   <<"install", u2>>, <<"groupForm", team, "active", {manager}>>, <<"groupDelete", team>>,
   <<"groupToggle", team>>}
Work == (a1 :> RoleAdmin) @@ (a2 :> UserAdmin \cup {<<"permissions", u2>>, <<"groups", u2>>})

===============================================================================
