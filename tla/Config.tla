------------------------------- MODULE Config -------------------------------
(***************************************************************************)
(* The configuration file (config/config.go): what applyDefaults makes of  *)
(* it and what validateBase, validateServer and ValidateEntities refuse.   *)
(* A server is a record of its type, the set of settings that are not      *)
(* blank, its port and the values that are compared with others.           *)
(***************************************************************************)
EXTENDS Integers

CONSTANTS
  DefaultPort, DefaultWorkers, DefaultBatch, DefaultRetries, DefaultStreak

MaxPort == 65535

ASSUME ConfigAssumption ==
  /\ DefaultPort \in 1..MaxPort
  /\ {DefaultWorkers, DefaultBatch, DefaultRetries, DefaultStreak} \subseteq Nat \ {0}

\* The file as parsed
ServerRecord ==
  [type : STRING, has : SUBSET STRING, port : Int, auth : STRING,
   min_tls : STRING, max_tls : STRING, ca : STRING]
ListRecord == [users : Nat, pairs : Nat, paths : SUBSET {"a", "b"}, unnamed : BOOLEAN]
ConfigRecord ==
  [a : ServerRecord, b : ServerRecord, workers : Int, batch : Int, retries : Int, streak : Int,
   source : STRING, path : STRING, cache : BOOLEAN, all : BOOLEAN, direction : STRING,
   lists : ListRecord]

OrElse(v, zero, default) == IF v = zero THEN default ELSE v

applyDefaults(c) ==
  [c EXCEPT !.a.port = OrElse(@, 0, DefaultPort),
            !.b.port = OrElse(@, 0, DefaultPort),
            !.workers = OrElse(@, 0, DefaultWorkers),
            !.batch = OrElse(@, 0, DefaultBatch),
            !.retries = OrElse(@, 0, DefaultRetries),
            !.streak = OrElse(@, 0, DefaultStreak),
            !.source = OrElse(@, "", "yaml"),
            !.direction = OrElse(@, "", "both")]

readOnlyType(t) == t = "pst"
pathOverridable(t) == t \in {"maildir", "pst"}
folderDiscoverable(t) == t \in {"", "imap", "maildir", "pst"}

OAuthSettings == {"client_id", "client_secret", "tenant", "token_url", "scope"}

hasOAuth(s) == s.has \cap OAuthSettings # {}

validateEWSAuth(s) ==
  \/ /\ s.auth \in {"", "basic", "ntlm"} /\ ~hasOAuth(s)
     /\ {"master_user", "master_pass"} \subseteq s.has
  \/ /\ s.auth = "oauth2"
     /\ {"client_id", "client_secret"} \subseteq s.has
     /\ s.has \cap {"tenant", "token_url"} # {}

\* ParseTLSVersion: no bound is 0, a version Go's TLS does not have an error
Unsupported == -1
ParseTLSVersion(raw) ==
  CASE raw = "" -> 0 [] raw = "1.0" -> 10 [] raw = "1.1" -> 11 [] raw = "1.2" -> 12
    [] raw = "1.3" -> 13 [] OTHER -> Unsupported

TLSBoundsFit(s) ==
  LET min == ParseTLSVersion(s.min_tls)
      max == ParseTLSVersion(s.max_tls)
  IN /\ min # Unsupported /\ max # Unsupported
     /\ min # 0 /\ max # 0 => min <= max

validateServer(s) ==
  /\ \/ /\ s.type \in {"", "imap"} /\ {"host", "master_user", "master_pass"} \subseteq s.has
        /\ s.port \in 1..MaxPort
     \/ s.type \in {"maildir", "pst"} /\ "root" \in s.has
     \/ s.type = "ews" /\ s.has \cap {"ews_url", "host"} # {} /\ validateEWSAuth(s)
  /\ s.type # "ews" => s.auth = "" /\ ~hasOAuth(s)
  /\ TLSBoundsFit(s)
  /\ s.ca # "unreadable"

\* A read-only side can be a source and never a target
directionFits(c) ==
  /\ ~(readOnlyType(c.a.type) /\ readOnlyType(c.b.type))
  /\ ~(readOnlyType(c.a.type) /\ c.direction = "b-to-a")
  /\ ~(readOnlyType(c.b.type) /\ c.direction = "a-to-b")

\* sqlite_path as it is after strings.TrimSpace
Blank(path) == path \in {"", " "}

\* Mutant: state_cache does not ask for sqlite_path
validateBaseNoPath(c) ==
  /\ validateServer(c.a) /\ validateServer(c.b)
  /\ c.source \in {"yaml", "sqlite"}
  /\ c.source = "sqlite" => ~Blank(c.path)
  /\ c.direction \in {"both", "a-to-b", "b-to-a"} /\ directionFits(c)
  /\ c.all => folderDiscoverable(c.a.type) /\ folderDiscoverable(c.b.type)
  /\ c.workers >= 1 /\ c.batch >= 1

validateBase(c) ==
  /\ validateServer(c.a) /\ validateServer(c.b)
  /\ c.source \in {"yaml", "sqlite"}
  /\ c.source = "sqlite" \/ c.cache => ~Blank(c.path)
  /\ c.direction \in {"both", "a-to-b", "b-to-a"} /\ directionFits(c)
  /\ c.all => folderDiscoverable(c.a.type) /\ folderDiscoverable(c.b.type)
  /\ c.workers >= 1 /\ c.batch >= 1

\* Mutant: the path overrides are not looked at
ValidateEntitiesNoPaths(c, l) ==
  /\ l.pairs > 0 \/ c.all
  /\ l.users > 0 /\ ~l.unnamed
  /\ ~(c.workers >= l.users /\ l.users > 1)

\* The lists: how many pairs and users, whether a name is empty or used twice,
\* the sides on which some user has a path of its own
ValidateEntities(c, l) ==
  /\ l.pairs > 0 \/ c.all
  /\ l.users > 0 /\ ~l.unnamed
  /\ "a" \in l.paths => pathOverridable(c.a.type)
  /\ "b" \in l.paths => pathOverridable(c.b.type)
  /\ ~(c.workers >= l.users /\ l.users > 1)

\* Load's checks, after applyDefaults
LoadAccepts(c) == validateBase(c) /\ (c.source = "yaml" => ValidateEntities(c, c.lists))
=============================================================================
