----------------------------- MODULE MCUpdateManager -----------------------------
(* A service with a dependency, or without, and the compose files and containers *)
(* each of the detectors may meet.                                             *)
EXTENDS UpdateManager

App == <<"app">>
Db  == <<"db">>
AppOrders == {<<App>>, <<Db, App>>}

App1 == <<"app", "-", "1">>
App2 == <<"app", "-", "2">>
Api1 == <<"app", "-", "api", ".", "1">>
Api2 == <<"app", "-", "api", ".", "2">>
Admin == <<"app", "_", "admin">>

\* Container number n of a service, as docker-compose named it and as Compose does.
V1(s, n) == [name |-> <<"shop", "_">> \o s \o <<"_", n>>, of |-> s]
V2(s, n) == [name |-> <<"shop", "-">> \o s \o <<"-", n>>, of |-> s]

World(scaled, others, containers) ==
  [services |-> [s \in scaled \union others |-> s \in scaled], containers |-> containers]

MCWorlds ==
  { World({}, {}, <<>>),
    \* both scaled, one, the other, and neither
    World({App, Db}, {}, <<V1(App, "1"), V1(Db, "1"), V1(App, "2")>>),
    World({App}, {Db}, <<V1(Db, "1"), V1(App, "1")>>),
    World({Db}, {App}, <<V1(Db, "2"), V1(Db, "1"), V1(App, "1")>>),
    World({}, {App, Db}, <<V1(Db, "1"), V1(App, "1")>>),
    \* scaled, without a container
    World({App, Db}, {}, <<V1(Db, "1")>>),
    \* a service, and members of a group, that are gone from the file and still run
    World({Db}, {}, <<V1(App, "1"), V1(Db, "1"), V1(App1, "1"), V1(App2, "1")>>),
    \* a group, one of a group without a container, no group
    World({Db}, {App1, App2}, <<V1(App1, "1"), V1(App2, "1"), V1(Db, "1")>>),
    World({}, {App1, App2, Db}, <<V1(App2, "2"), V1(App2, "1")>>),
    World({Db}, {App1}, <<V1(App1, "1"), V1(Db, "1")>>),
    \* a group of the name of a scaled service, one of them scaled too
    World({App, App1}, {App2}, <<V1(App1, "2"), V1(App, "1"), V1(App1, "1")>>),
    \* a longer name, with two separators
    World({App}, {Api1, Api2}, <<V1(Api2, "1"), V1(App, "1"), V1(Api1, "1")>>),
    \* an underscore in a name, and the names of today
    World({App}, {Admin}, <<V1(Admin, "1"), V1(App, "1")>>),
    World({App, Db}, {}, <<V2(Db, "1"), V2(App, "1")>>) }
================================================================================
