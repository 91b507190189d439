------------------------------- MODULE MCConf -------------------------------
(* Small instances of Conf: one group, two services, two params; every      *)
(* operation of the editor occurs in some transaction.                      *)
EXTENDS Conf, TLC

SetParam(k, v) == Op("set", "param", "s", k, v)
SetOtherParam(v) == Op("set", "param", "default", "k", v)
RemoveParam(k) == Op("remove", "param", "s", k, Nil)
SetService(v) == Op("set", "service", "s", "", v)
SetParams(v) == Op("set", "params", "s", "", v)
RemoveParams == Op("remove", "params", "s", "", Nil)
SetGroups(v) == Op("set", "groups", "", "", v)
RemoveGroups == Op("remove", "groups", "", "", Nil)
SetServices(v) == Op("set", "services", "", "", v)
RemoveServices == Op("remove", "services", "", "", Nil)

MCGroups == {"g"}
MCUsers == {"u"}
MCLists == {{}, {"u"}}
MCServices == {"s", "default"}
MCKeys == {"k", "l"}
MCValues == {"v", "w", "env"}
MCResolves == [v \in MCValues |-> IF v = "env" THEN None ELSE v]
MCChecksums == {"", "sum", "bad"}
MCBadChecksums == {"bad"}

WithParam(v) == [checksum |-> "", params |-> [k \in MCKeys |-> v]]

SetGroup == handlePutGroup("g", {"u"})
RemoveGroup == handleDeleteGroup("g")
SetChecksum(v) == handlePatchServiceEntryConfig("s", v)
RemoveService == handleDeleteServiceEntryConfig("s")

\* What requests send: the handlers' transactions first, then longer ones and the
\* replacement of whole containers, which Update also offers.
MCTransactions ==
    <<SetGroup, RemoveGroup, handlePutGroup("g", {}), RemoveService,
      SetChecksum("sum"), SetChecksum("bad"), SetChecksum(""),
      <<SetOtherParam("w"), SetParam("k", "w"), SetParam("", "w")>>,
      SetChecksum("sum") \o <<RemoveParam("")>>,
      SetChecksum("") \o <<SetParam("k", "v")>>,
      <<SetService(WithParam("v")), SetParam("k", "w")>>,
      RemoveService \o <<SetParam("k", "w"), RemoveParam("k")>>,
      <<SetParams([k \in MCKeys |-> "w"])>> \o SetGroup \o SetChecksum("bad"),
      <<RemoveParams, SetParam("k", "v"), RemoveGroups>>,
      <<SetGroups([g \in MCGroups |-> {}])>> \o SetGroup \o RemoveGroup,
      <<RemoveServices>> \o SetChecksum("sum") \o <<SetParam("k", "v")>>,
      <<SetServices([s \in MCServices |-> WithParam("v")]), SetParam("k", "w")>> \o RemoveGroup>>

\* "k" deleted and set, deleted and "l" set, both set, a required variable that
\* is not set, an empty key, a patch that says nothing.
Patch(from, name, delete, k, l) ==
    [from |-> from, name |-> name, delete |-> delete,
     set |-> [key \in MCKeys |-> IF key = "k" THEN k ELSE l]]
MCPatches ==
    {Patch("service", "s", <<"k">>, "w", None), Patch("service", "s", <<"k">>, None, "v"),
     Patch("api", "s", <<>>, "v", "w"), Patch("api", "default", <<"l">>, "env", None),
     Patch("service", "s", <<"">>, "v", None), Patch("service", "s", <<>>, None, None),
     Patch("service", "default", <<>>, "v", None), Patch("api", "s", <<>>, None, None)}

MCForeignFiles ==
    {Missing, Broken, Defaults,
     [groups |-> [g \in MCGroups |-> {"u"}],
      services |-> [s \in MCServices |-> WithParam("v")]]}

=============================================================================
