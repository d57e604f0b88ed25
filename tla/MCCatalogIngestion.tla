-------------------------- MODULE MCCatalogIngestion --------------------------
(***************************************************************************)
(* The transactions of the catalog and, explored apart from them           *)
(* (scenario), the checks a submission passes before its transaction       *)
(* writes.                                                                 *)
(*                                                                         *)
(* "transactions": one http listing and one mcp tool.  Two payees claim    *)
(* the http listing; its first one also sends deltas of another scheme, a  *)
(* revoke of each network, and a request that says mcp and names another   *)
(* network.  Of the two deltas for the tool, one reuses a settlement of    *)
(* the listing and one names a settlement that credited somebody else.     *)
(*                                                                         *)
(* "screen": a sound request and one more for each way to fail a check,    *)
(* deltas likewise, and a seller whose challenge has its offer, has it     *)
(* only in pieces, is of another resource, or is none.                     *)
(***************************************************************************)
EXTENDS CatalogIngestion, CatalogScreen, TLC

CONSTANTS site1, tool, url, p, q, pub, test, exact, upto, t1, t2, t3, low, high

VARIABLE scenario

Ask(payTo, network, scheme, terms) ==
    [payTo |-> payTo, network |-> network, scheme |-> scheme, terms |-> terms]

MCChallenges ==
    LET exactly == Ask(p, pub, exact, low)
    IN  {{}, {exactly}, {exactly, Ask(p, pub, upto, high)}, {Ask(q, pub, exact, low)}}

Message(type, listing, http, asked, tx, revision, digest) ==
    [type |-> type, listing |-> listing, site |-> url, http |-> http, tx |-> tx,
     revision |-> revision, digest |-> digest] @@ asked

MCCreditedTo == [t \in Txs |-> IF t = t3 THEN q ELSE p]

MCMessages ==
    {Message("ingest", site1, TRUE, Ask(p, pub, exact, low), t1, 0, 0),
     Message("ingest", site1, TRUE, Ask(q, pub, exact, low), t3, 0, 0),
     Message("ingest", site1, FALSE, Ask(p, test, exact, high), t2, 0, 0),
     Message("upsert", site1, TRUE, Ask(p, pub, upto, high), t2, 1, 1),
     Message("upsert", site1, TRUE, Ask(p, pub, upto, high), t2, 2, 1),
     Message("revoke", site1, TRUE, Ask(p, pub, exact, low), t1, 2, 2),
     Message("revoke", site1, TRUE, Ask(p, test, exact, low), t1, 2, 2),
     Message("upsert", tool, FALSE, Ask(p, pub, exact, low), t1, 1, 1),
     Message("upsert", tool, FALSE, Ask(q, pub, exact, low), t1, 1, 1)}

----------------------------------------------------------------------------
\* Specification trees: a flat one, one with a reference behind an array,
\* one that is exactly as deep as allowed and one level deeper.
MCChildren ==
    "flat" :> {"leaf"} @@ "leaf" :> {} @@ "object" :> {"array"}
    @@ "array" :> {"link"} @@ "link" :> {} @@ "deep" :> {"d1"}
    @@ "d1" :> {"d2"} @@ "d2" :> {"leaf"} @@ "deeper" :> {"deep"}

Address4(b1, b2, b3) == [version |-> 4, bytes |-> <<b1, b2, b3>>]
MCAddresses ==
    {{}, {Address4(93, 184, 216)}, {Address4(93, 184, 216), Address4(172, 31, 0)},
     {Address4(172, 32, 0), [version |-> 6, class |-> "global"]},
     {[version |-> 6, class |-> "unique local"]}}

MCProtocol == "shop" :> "https" @@ "inner" :> "http" @@ "local" :> "http" @@ "files" :> "ftp"
MCTransport == "inner" :> "shop"

Url(origin) ==
    [origin |-> origin, path |-> "/", fragment |-> "top", credentials |-> FALSE]

OfferOf(scheme, payTo, amount) ==
    [network |-> "net", scheme |-> scheme, asset |-> "usdc", payTo |-> payTo,
     amount |-> amount]

Reply(status, origin, accepts) ==
    [status |-> status, resource |-> Url(origin), accepts |-> accepts]
MCSiteAnswers ==
    {Reply(402, "shop", {OfferOf("exact", p, 1), OfferOf("upto", p, 9)}),
     Reply(402, "shop", {OfferOf("exact", q, 1), OfferOf("exact", p, 2)}),
     Reply(402, "local", {OfferOf("exact", p, 1)}),
     Reply(500, "shop", {})}

Event(contract, actual) ==
    [contract |-> contract, payTo |-> p, token |-> "usdc", max |-> 9,
     actual |-> actual, digest |-> "d"]
MCLedger ==
    t1 :> [successful |-> TRUE, at |-> 0, credits |-> {p},
           events |-> <<Event("other", 4), Event("escrow", 3), Event("escrow", 4)>>]
    @@ t2 :> [successful |-> FALSE, at |-> 0, credits |-> {p}, events |-> <<>>]

Request ==
    [kind |-> "request", type |-> "http", op |-> "upsert", url |-> Url("shop"),
     name |-> "plain", tags |-> <<"plain">>, icon |-> "remote", route |-> "plain",
     specs |-> {"flat", "deep"}, owner |-> Nothing,
     signer |-> p, verifies |-> TRUE, issued |-> 0, expires |-> 1,
     offer |-> OfferOf("exact", p, 1), tx |-> t1, proof |-> Nothing]

Owner(key, verifies, at) == [key |-> key, verifies |-> verifies, at |-> at]
Proof(contract, actual) ==
    [contract |-> contract, token |-> "usdc", max |-> 9, actual |-> actual, digest |-> "d"]
Upto == [Request EXCEPT !.offer = OfferOf("upto", p, 9)]
Delta == [Request EXCEPT !.kind = "delta"]

MCForms ==
    {Request,
     [Request EXCEPT !.name = "unprintable"],
     [Request EXCEPT !.tags = <<"plain", "long">>],
     [Request EXCEPT !.icon = "address"],
     [Request EXCEPT !.route = "parent"],
     [Request EXCEPT !.specs = {"object"}],
     [Request EXCEPT !.specs = {"deeper"}],
     [Request EXCEPT !.owner = Owner("classic", TRUE, 1)],
     [Request EXCEPT !.owner = Owner("classic", FALSE, 0)],
     [Request EXCEPT !.url = Url("inner")],
     [Request EXCEPT !.url = Url("files")],
     [Request EXCEPT !.url = Url("local")],
     [Request EXCEPT !.offer.asset = Nothing],
     [Request EXCEPT !.tx = t2],
     [Request EXCEPT !.tx = t3, !.type = "mcp"],
     [Request EXCEPT !.offer.payTo = q, !.type = "mcp"],
     [Upto EXCEPT !.proof = Proof("escrow", 3)],
     [Upto EXCEPT !.proof = Proof("escrow", 4)],
     [Upto EXCEPT !.proof = Proof("none", 4)],
     Delta,
     [Delta EXCEPT !.op = "revoke"],
     [Delta EXCEPT !.signer = q],
     [Delta EXCEPT !.offer.payTo = q, !.signer = p, !.type = "mcp"],
     [Delta EXCEPT !.issued = 2, !.expires = 3],
     [Delta EXCEPT !.expires = 9],
     [Delta EXCEPT !.specs = {"object"}, !.route = "parent"]}

MCDelegates == q :> {p}

RunInit ==
    /\ Init /\ ScreenInit
    /\ \/ scenario = "transactions" /\ site = CHOOSE reply \in SiteAnswers : TRUE
       \/ scenario = "screen" /\ live = [u \in Sites |-> {}]

RunNext ==
    \/ scenario = "transactions" /\ Next /\ UNCHANGED <<screenVars, scenario>>
    \/ scenario = "screen" /\ ScreenNext /\ UNCHANGED <<vars, scenario>>

RunSpec == RunInit /\ [][RunNext]_<<vars, screenVars, scenario>>
=============================================================================
