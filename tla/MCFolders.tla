------------------------------ MODULE MCFolders ------------------------------
(* Instances of Folders: folders that match by attribute, by name, by case. *)
EXTENDS Folders

F(n, u) == [name |-> n, use |-> u, sel |-> "yes", no |-> 0]
Names == <<<<"Inbox">>, <<"INBOX">>, <<"W">>, <<"w">>, <<"w", "/", "x">>, <<"w", ".", "x">>,
           <<"w", "/", "X">>, <<"w", ".", "X">>, <<"Top">>, <<"Sent">>, <<"Items">>>>
MCWord == {"/", ".", "Inbox", "INBOX", "W", "w", "X", "x", "Top", "Sent", "Items"}
Up == [n \in Range(Names) |-> CHOOSE i \in DOMAIN Names : Names[i] = n]
MCOrders == {Up, [n \in Range(Names) |-> 100 - Up[n]]}

OnBoth(k, l) == [s \in Side |-> IF s = "a" THEN k ELSE l]

\* Two servers with different separators
Imap == [kind |-> OnBoth("imap", "imap"), delim |-> OnBoth("/", "."),
         exclude |-> {}, writable |-> Side,
         found |-> OnBoth({F(<<"INBOX">>, None), F(<<"W">>, None), F(<<"w">>, None),
                           F(<<"w", "/", "x">>, None), F(<<"w", "/", "X">>, None),
                           F(<<"Sent">>, "\\Sent"),
                           [name |-> <<"Items">>, use |-> None, sel |-> "no", no |-> 0]},
                          {F(<<"Inbox">>, None), F(<<"w">>, None), F(<<"w", ".", "x">>, None),
                           F(<<"Items">>, "\\Sent"), F(<<"Sent">>, None)})]

\* A PST archive, which is only read, with a folder that it does not list, a name
\* with a "/", and an attribute that is left out
Pst == [kind |-> OnBoth("pst", "imap"), delim |-> OnBoth("/", "."),
        exclude |-> {<<"\\Sent">>}, writable |-> {"b"},
        found |-> OnBoth({F(<<"Inbox">>, None), F(<<"W">>, None), F(<<"Items">>, "\\Sent"),
                          F(<<"Sent">>, "\\Sent"), F(<<"w">>, None), F(<<"w", "/", "x">>, None),
                          [name |-> <<"Top">>, use |-> None, sel |-> "no", no |-> 0]},
                         {F(<<"INBOX">>, None), F(<<"w">>, None), F(<<"w", ".", "x">>, None),
                          F(<<"Sent">>, "\\Sent")})]

\* A Maildir, whose "Sent" has its attribute by its name
Maildir == [kind |-> OnBoth("maildir", "imap"), delim |-> OnBoth(".", "/"),
            exclude |-> {}, writable |-> Side,
            found |-> OnBoth({F(<<"INBOX">>, None), F(<<"Sent">>, "\\Sent"), F(<<"W">>, None),
                              F(<<"w", ".", "x">>, None)},
                             {F(<<"INBOX">>, None), F(<<"Items">>, "\\Sent"), F(<<"w">>, None),
                              F(<<"w", "/", "x">>, None)})]

\* The import of an archive, which has a name twice, into a Maildir
Import == [kind |-> OnBoth("pst", "maildir"), delim |-> OnBoth("/", "."),
           exclude |-> {}, writable |-> {"b"},
           found |-> OnBoth({F(<<"Inbox">>, None), F(<<"W">>, None), [F(<<"W">>, None) EXCEPT !.no = 1],
                             F(<<"Items">>, "\\Sent"), F(<<"w", "/", "x">>, None)},
                            {F(<<"INBOX">>, None), F(<<"Sent">>, "\\Sent"), F(<<"w">>, None),
                             F(<<"w", ".", "x">>, None)})]

MCSetups == {Imap, Pst, Maildir, Import}

\* The premises of the theorems in FoldersProofs
ASSUME MCRegular == /\ \A c \in MCSetups : Regular(c)
                    /\ \A c \in {Maildir, Import} : Grouped(c)
=============================================================================
