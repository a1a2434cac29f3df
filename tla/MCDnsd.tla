------------------------------- MODULE MCDnsd -------------------------------
(* Small configurations and queries for TLC: two zones, one inside the       *)
(* other, as in conf/example, and a zone without NS records.                 *)
EXTENDS Dnsd, TLC

Ex  == <<"org", "ex">>
Sub == <<"org", "ex", "sub">>
Bare == <<"org", "bare">>

MCLabel   == {"org", "net", "ex", "sub", "bare", "www", "dns", "mail", "a", "x", "y",
              "1", "87", "999", "long"}
MCOctet   == {"1", "87"}
MCDigits3 == MCOctet \cup {"999"}
MCLong    == {"long"}

Basic(z) == {RR(z, "SOA", "IN", Root), RR(z \o <<"www">>, "A", "IN", Root)}

MCRrs ==
  Ex  :> (Basic(Ex) \cup
          {RR(Ex, "NS", "IN", Ex \o <<"dns">>), RR(Ex \o <<"dns">>, "A", "IN", Root),
           RR(Ex, "MX", "IN", Ex \o <<"mail">>), RR(Ex \o <<"mail">>, "AAAA", "IN", Root),
           RR(Ex \o <<"a", "1", "1", "87", "87">>, "A", "IN", Root)})
  @@ Sub  :> (Basic(Sub) \cup {RR(Sub, "NS", "IN", Ex \o <<"dns">>)})
  @@ Bare :> Basic(Bare)

MCZones     == {Ex, Sub}
MCBareZones == {Ex, Bare}

Ask(name, type) == [name |-> name, type |-> type, clas |-> "IN", count |-> 1]
Addr == <<"1", "1", "87", "87">>
Foreign1 == Ask(<<"net", "x">>, "A")
Foreign2 == Ask(<<"net", "y">>, "A")

LocalQueries ==
  {Ask(Ex \o <<"www">>, "A"), Ask(Ex, "NS"), Ask(Ex, "MX"), Ask(Ex, "HINFO"),
   Ask(Sub \o <<"www">>, "AAAA"), Ask(Sub \o <<"www">>, "A"),
   Ask(Ex \o <<"a">> \o Addr, "AAAA"), Ask(Ex \o <<"a", "1", "1", "87", "999">>, "A"),
   Ask(Ex \o <<"long">> \o Addr, "A"), Ask(Sub \o Addr, "A"), Ask(Root, "NS"),
   [Ask(Ex, "A") EXCEPT !.count = 2]}
ForeignQueries == {Foreign1, Ask(Ex \o <<"www">>, "A")}
MCQueries      == LocalQueries \cup {Foreign1, Foreign2}
BareQueries    == {Ask(Bare \o <<"www">>, "A"), Foreign1}
NipQueries     == {Ask(Ex \o Addr, "A"), Foreign1}
=============================================================================
