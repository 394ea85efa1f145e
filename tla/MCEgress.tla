------------------------------ MODULE MCEgress ------------------------------
(* An instance of Egress for TLC: a granted wildcard with a denied name and *)
(* a credential's domain in it, and hellos that name all of them.           *)
EXTENDS Egress

MCDomains == {Wild(<<"org">>)}
MCDenied == {Exact(<<"evil", "org">>), Exact(<<"api", "org">>)}
MCIntercepted == {Name(<<"api", "org">>)}

Sni(name) == [type |-> "server_name", name |-> name]
Extension(type) == [type |-> type, name |-> NoName]
Hello(extensions) == [client |-> TRUE, extensions |-> extensions, size |-> 3]

MCHellos ==
    {Hello(<<Sni(Name(<<"www", "org">>))>>),
     Hello(<<Extension("other"), Sni(Spelt(<<"evil", "org">>))>>),
     Hello(<<Sni(Spelt(<<"api", "org">>))>>),
     Hello(<<Sni(Name(<<"org">>)), Sni(Name(<<"www", "org">>))>>),
     Hello(<<Extension("short"), Sni(Name(<<"www", "org">>))>>),
     [client |-> FALSE, extensions |-> <<Sni(Name(<<"www", "org">>))>>, size |-> 3]}
=============================================================================
