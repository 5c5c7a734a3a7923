----------------------------- MODULE MCStartup ------------------------------
(***************************************************************************)
(* The files and lists for model checking Startup: every combination of    *)
(* types and modes with lists from the file, one of each wrong setting,    *)
(* and a few files with the lists in the DB.                               *)
(***************************************************************************)
EXTENDS Startup, TLC

L(n, k, sides) == [users |-> n, pairs |-> k, paths |-> sides, unnamed |-> FALSE]

GoodList == L(2, 1, {})
SomeLists == {GoodList, L(1, 0, {}), L(2, 1, {"a"})}

Server(type, has) ==
  [type |-> type, has |-> has, port |-> 0, auth |-> "", min_tls |-> "", max_tls |-> "", ca |-> ""]

Login == {"host", "master_user", "master_pass"}
OAuthServer == [Server("ews", {"ews_url", "client_id", "client_secret", "tenant"})
                  EXCEPT !.auth = "oauth2"]
GoodServer == {Server("imap", Login), Server("pst", {"root"}), OAuthServer}

WrongServer ==
  {Server("", {"host", "master_user"}), Server("nntp", Login), Server("maildir", Login),
   Server("imap", Login \cup {"scope"}), Server("ews", {"host", "master_user"}),
   [Server("imap", Login) EXCEPT !.port = 65536],
   [Server("imap", Login) EXCEPT !.min_tls = "1.3", !.max_tls = "1.2"],
   [Server("imap", Login) EXCEPT !.min_tls = "sslv3"],
   [Server("imap", Login) EXCEPT !.ca = "unreadable"],
   [OAuthServer EXCEPT !.has = @ \ {"tenant"}],
   [OAuthServer EXCEPT !.auth = "ntlm"]}

Base == [a |-> Server("imap", Login), b |-> Server("maildir", {"root"}), workers |-> 1,
         batch |-> 0, retries |-> 0, streak |-> -1, source |-> "", path |-> "",
         cache |-> FALSE, all |-> FALSE, direction |-> "", lists |-> GoodList]

YamlFiles ==
  {[Base EXCEPT !.a = a, !.b = b, !.all = l, !.direction = d] :
     a, b \in GoodServer, l \in BOOLEAN, d \in {"", "a-to-b", "b-to-a"}}
  \cup {[Base EXCEPT !.a = a, !.path = x, !.cache = TRUE] : a \in GoodServer, x \in {"", "db"}}
  \cup {[Base EXCEPT !.streak = k, !.path = x] : k \in {-1, 0}, x \in {"", " ", "db"}}
  \cup {[Base EXCEPT !.lists = l] :
          l \in SomeLists \cup {L(0, 1, {}), [GoodList EXCEPT !.unnamed = TRUE]}}
  \cup {[Base EXCEPT !.a = s] : s \in WrongServer}
  \cup {[Base EXCEPT !.b = s] : s \in WrongServer}
  \cup {[Base EXCEPT !.workers = w, !.batch = n] : w \in {-1, 0}, n \in {-1, 0}}
  \cup {[Base EXCEPT !.source = "mysql"], [Base EXCEPT !.direction = "c-to-d"]}

SqliteFiles ==
  {[Base EXCEPT !.source = "sqlite", !.path = x] : x \in {" ", "db"}}
  \cup {[Base EXCEPT !.source = "sqlite", !.path = "db", !.a = Server("pst", {"root"}), !.all = TRUE]}

Daemons == Permutations(Daemon)

SomeFiles == YamlFiles \cup SqliteFiles
=============================================================================
