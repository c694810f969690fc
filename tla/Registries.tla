------------------------------- MODULE Registries -------------------------------
(***************************************************************************)
(* Which registry is asked for the tags of an image, and whether it can     *)
(* answer (internal/registry: ParseImageURL, NewRegistryClient,             *)
(* CreateAuthenticator and the GetTags of each client; the options that     *)
(* internal/syncer makes of the configuration).                             *)
(*                                                                         *)
(* Of an image's name the code looks at the part before the first slash:    *)
(* whether it is one of the known domains or has a dot, and at how many     *)
(* slashes there are.  The registry the image really lives in is the one    *)
(* docker would pull it from.  What the network and the registry answer is  *)
(* left to the modules that use this one, but for one thing: a registry     *)
(* does not have the repositories of another one.                           *)
(***************************************************************************)
EXTENDS Naturals

\* registry: where docker pulls the image from;  dotted: the part before the
\* first slash has a dot;  slashes: how many there are.
Reference == [registry: STRING, dotted: BOOLEAN, slashes: Nat]

\* url: the custom registry configured, "" for none;  token and password: the
\* credentials of DigitalOcean configured;  pat: GITHUB_PAT is set.
Configuration ==
  [url: STRING, token: BOOLEAN, password: BOOLEAN, pat: BOOLEAN]

\* The domains with a pattern of their own.
KnownDomains ==
  {"docker.io", "gcr.io", "ghcr.io", "azurecr.io", "quay.io",
   "registry.digitalocean.com", "ecr"}

\* ParseImageURL: no error for any name.
ParseImageURL(ref) ==
  IF ~ref.dotted /\ ref.slashes <= 1 THEN "docker.io"
  ELSE IF ref.dotted /\ ref.registry \in KnownDomains THEN ref.registry
  ELSE "custom"

\* CreateAuthenticator knows four of the types.
HasAuthenticator(type) ==
  type \in {"docker.io", "ghcr.io", "registry.digitalocean.com", "custom"}

\* NewRegistryClient.
HasClient(type, cfg) ==
  /\ HasAuthenticator(type)
  /\ type = "custom" => cfg.url # ""

-----------------------------------------------------------------------------
(***************************************************************************)
(* GetTags of each client: the registry it asks, and what it needs.        *)
(***************************************************************************)
\* Docker Hub and GHCR let anybody list a public repository.
DockerHubLists(ref) == ref.registry = "docker.io"
GHCRLists(ref)      == ref.registry = "ghcr.io"

\* The token of DigitalOcean falls back to GITHUB_PAT.
Token(cfg) == cfg.token \/ cfg.pat

\* Authenticate fails without a password or a token.
DOCRAuthenticates(cfg) == cfg.password \/ Token(cfg)

\* The path must name the registry of the account and the repository in it.
DOCRLists(ref, cfg) ==
  /\ ref.slashes >= 2
  /\ DOCRAuthenticates(cfg)

\* The configured URL, whatever the domain of the image.
CustomLists(ref, cfg) == ref.registry = cfg.url

\* The tags of the image are listed, unless the network or the registry fails.
Lists(ref, cfg) ==
  LET type == ParseImageURL(ref)
  IN  /\ HasClient(type, cfg)
      /\ type = "docker.io" => DockerHubLists(ref)
      /\ type = "ghcr.io" => GHCRLists(ref)
      /\ type = "registry.digitalocean.com" => DOCRLists(ref, cfg)
      /\ type = "custom" => CustomLists(ref, cfg)
================================================================================
