------------------------------- MODULE MCSyncLoop -------------------------------
(* Model values for SyncLoop: two services and a few compose files. *)
EXTENDS SyncLoop

MCServices == {"web", "api"}

\* An account of Docker Hub, GHCR, DigitalOcean, Google, a custom registry and an
\* unknown one.
Hub    == [registry |-> "docker.io", dotted |-> FALSE, slashes |-> 1]
Github == [registry |-> "ghcr.io", dotted |-> TRUE, slashes |-> 2]
Ocean  == [registry |-> "registry.digitalocean.com", dotted |-> TRUE, slashes |-> 2]
Google == [registry |-> "gcr.io", dotted |-> TRUE, slashes |-> 2]
Ours   == [registry |-> "registry.example.com", dotted |-> TRUE, slashes |-> 1]
Theirs == [registry |-> "registry.example.org", dotted |-> TRUE, slashes |-> 1]
Local  == [registry |-> "localhost:5000", dotted |-> FALSE, slashes |-> 1]

MCConfig == [url |-> Ours.registry, token |-> FALSE, password |-> FALSE, pat |-> TRUE]

Key(k) == [line |-> "key", name |-> k]
Image(s, r, f, q) ==
  [line |-> "image", owner |-> s, ref |-> r, form |-> f, quoted |-> q]

Plain  == <<Key("services"), Key("web"), Image("web", Hub, "tagged", FALSE),
            Key("api"), Image("api", Ours, "tagged", FALSE)>>
\* depends_on with conditions, below the image line.
Depends == <<Key("services"), Key("web"), Image("web", Github, "tagged", FALSE),
             Key("api"), Image("api", Ocean, "tagged", FALSE), Key("depends_on"), Key("web")>>
\* No colon, two colons, an image below environment: never rewritten.
Bare   == <<Key("services"), Key("web"), Image("web", Hub, "untagged", FALSE),
            Key("api"), Image("api", Google, "tagged", FALSE)>>
Ported == <<Key("services"), Key("web"), Image("web", Local, "many", FALSE),
            Key("api"), Image("api", Hub, "tagged", FALSE)>>
Late   == <<Key("services"), Key("web"), Image("web", Hub, "tagged", FALSE),
            Key("api"), Key("environment"), Image("api", Hub, "tagged", FALSE)>>

\* One colon, before a port and before a digest: taken for repo:tag, and spoilt.
Colons == <<Key("services"), Key("web"), Image("web", Ours, "ported", FALSE),
            Key("api"), Image("api", Hub, "digest", FALSE)>>

\* A quoted image: rewriting the line makes the file unreadable.
Quoted == <<Key("services"), Key("web"), Image("web", Hub, "tagged", TRUE),
            Key("api"), Image("api", Theirs, "tagged", FALSE)>>
Every  == {Plain, Depends, Bare, Ported, Late, Colons, Quoted}

\* The run that finds a disagreement.
JustPlain == {Plain}

\* depends_on with a condition above the image line, which the scanner takes for
\* the image of the service depended on: with this layout TagsBelong is violated.
Above == <<Key("services"), Key("web"), Image("web", Hub, "tagged", FALSE),
           Key("api"), Key("depends_on"), Key("web"), Image("api", Hub, "tagged", FALSE)>>
JustAbove == {Above}

\* With this one NothingLost is.
JustColons == {Colons}
================================================================================
