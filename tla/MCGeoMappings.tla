---------------------------- MODULE MCGeoMappings ----------------------------
(***************************************************************************)
(* Three files with every way of including one or two of them, or the main *)
(* file again; two regions that claim the same country; two strings for    *)
(* one network and a smaller network inside it.                            *)
(***************************************************************************)
EXTENDS GeoMappings

MCServices  == [east |-> {"shop"}, west |-> {"shop"}, empty |-> {}]
MCRegionsOf == [shop |-> {"east"}, blog |-> {"west"}]

MCNetworkOf == [wide |-> {"a1", "a2"}, alias |-> {"a1", "a2"}, narrow |-> {"a1"}]

MCCountryOf   == [a1 |-> "US", a2 |-> "US", a3 |-> "FR", a4 |-> "none"]
MCContinentOf == [a1 |-> "NA", a2 |-> "NA", a3 |-> "EU", a4 |-> "none"]
MCCountriesOf  == [east |-> {"US"}, west |-> {"US"}, empty |-> {}]
MCContinentsOf == [east |-> {"NA"}, west |-> {"EU"}, empty |-> {"EU"}]

Part(rs, ds, ms) == [regions |-> rs, domains |-> ds, mappings |-> ms]
To(c, r) == [cidr |-> c, region |-> r]

MainParts == {Part(<<"east">>, <<"shop">>, <<>>),
              Part(<<>>, <<"shop">>, <<To("wide", "east")>>)}
OtherParts == {NoConfig,
               Part(<<"west">>, <<>>, <<To("narrow", "west")>>),
               Part(<<"empty">>, <<"blog">>, <<To("wide", "empty")>>),
               Part(<<"east">>, <<>>, <<To("bad", "east")>>)}

MCSortedFiles == <<"a", "b", "main">>

MCIncludes == {<<>>, <<{"a"}>>, <<{"b"}>>, <<{"a", "b"}>>, <<{"b"}, {"a"}>>, <<{"main"}>>}

Good(part, includes) == [own |-> part, includes |-> includes, state |-> "good"]
Bad(why) == [own |-> NoConfig, includes |-> <<>>, state |-> why]

Tree(main, a, b) == [main |-> main, a |-> a, b |-> b]

MCTrees ==
    {Tree(Good(m, i), Good(p, j), Good(q, k)) :
        m \in MainParts, p, q \in OtherParts, i, j, k \in MCIncludes}
    \cup {Tree(Bad(why), Bad("broken"), Bad("broken")) : why \in {"open", "broken"}}
    \cup {Tree(Good(CHOOSE m \in MainParts : TRUE, <<{"a"}>>), Bad(why), Bad("broken")) :
             why \in {"open", "broken"}}

MCReloadTrees ==
    {t \in MCTrees : t.main.includes = <<>> /\ t.main.state = "good" /\ t.a = t.b
                     /\ t.a.own = NoConfig /\ t.a.includes = <<>>}
    \cup {Tree(Bad("open"), Bad("broken"), Bad("broken"))}

=============================================================================
