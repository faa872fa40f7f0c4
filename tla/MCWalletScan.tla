---------------------------- MODULE MCWalletScan ----------------------------
(* Instances of WalletScan for TLC: a few wallets under every configuration, *)
(* and fixtures made of every combination of a few rows.                     *)
EXTENDS WalletScan

CONSTANTS usdc, meth, a1, a2, a3, t1, t2, row

\* Configured tokens are read from the RPC node only.
MCConfigs == {c \in Config : c.knownTokens => c.rpc}

Token(token, symbol, value, known, risky) ==
    [token |-> token, symbol |-> symbol, value |-> value, known |-> known,
     risky |-> risky]

Log(pair, token, first, now, nft, age) ==
    [pair |-> pair, token |-> token, first |-> first, now |-> now, nft |-> nft,
     age |-> age]

Transfer(id, token, kind, age) ==
    [id |-> id, token |-> token, kind |-> kind, age |-> age]

Wallet(tokens, logs, transfers) ==
    [tokens |-> tokens, logs |-> logs, transfers |-> transfers]

\* A quiet wallet; one with a spender who was given all and may have it no
\* longer, and a risky token; one with dust, and with a token that is only in its
\* history; an empty one; one with an NFT's approval.
MCWallets ==
    {Wallet({Token(usdc, "USDC", 900, TRUE, FALSE)}, {},
            {Transfer(t1, usdc, "token_transfer", "recent")}),
     Wallet({Token(usdc, "USDC", 6000, FALSE, FALSE),
             Token(meth, "mETH", 9000, TRUE, TRUE)},
            {Log(a1, meth, "unlimited", "none", FALSE, "old"),
             Log(a2, usdc, "some", "unlimited", FALSE, "recent")}, {}),
     Wallet({Token(None, "MNT", 40, FALSE, FALSE)},
            {Log(a1, meth, "some", "unlimited", FALSE, "recent")},
            {Transfer(t1, usdc, "dust", "old"),
             Transfer(t2, meth, "token_transfer", "recent")}),
     Wallet({}, {}, {}),
     Wallet({Token(usdc, "USDC", 900, TRUE, FALSE)},
            {Log(a1, usdc, "some", "some", FALSE, "recent"),
             Log(a3, row, "none", "none", TRUE, "recent")}, {})}

Approval(id, unlimited, labelled, malicious, usd) ==
    [active |-> TRUE, unlimited |-> unlimited, labelled |-> labelled,
     malicious |-> malicious, usd |-> usd, status |-> "available",
     log |-> None, cites |-> {<<"approval", id>>}]

\* Small, large, unlimited; malicious, with a label.
FixtureApprovals ==
    {Approval(a1, FALSE, FALSE, FALSE, 300), Approval(a2, FALSE, FALSE, FALSE, 6000),
     Approval(a2, TRUE, FALSE, FALSE, 501), Approval(a3, TRUE, TRUE, TRUE, 0)}

FixtureTransfers ==
    {[id |-> <<"transfer", t1>>, status |-> "available", kind |-> "dust"],
     [id |-> <<"transfer", t2>>, status |-> "available", kind |-> "new_recipient"]}

FixtureBalances ==
    {{}, {Balance("fixture", usdc, "USDC", 2000)},
     {Balance("fixture", usdc, "USDC", 1000), Balance("fixture", meth, "mETH", 60000)},
     {Balance("fixture", usdc, "USDC", 500), Balance("fixture", meth, "cmETH", 501), Balance("fixture", row, "LP", 600)}}

FullCoverage == [f \in Fields |-> "available"]

FixtureCoverages ==
    {FullCoverage, [FullCoverage EXCEPT !["fullTokenInventory"] = "not_supported_p0"],
     [FullCoverage EXCEPT !["transferLogs"] = "unavailable"],
     [f \in Fields |-> IF f \in CriticalFields THEN "unavailable" ELSE "partial"]}

\* quality: that of the approvals' evidence.
Fixture(approvals, transfers, balances, completeness, quality) ==
    LET cited(rows) == {r.id : r \in rows}
    IN  [mode |-> "fixture", completeness |-> completeness,
         sources |-> [s \in SourceNames |-> "available"],
         evidence |-> {Evidence("approval", a, quality, "recent") : a \in {a1, a2, a3}}
                         \cup {[id |-> id, quality |-> "fresh", age |-> "recent"] :
                                  id \in cited(transfers) \cup cited(balances)},
         native |-> {}, held |-> {}, listed |-> balances, approvals |-> approvals,
         transfers |-> transfers, tokens |-> {},
         exposure |-> IF balances = {} THEN None
                      ELSE [percent |-> 3000, warning |-> FALSE,
                            cites |-> cited(balances)]]

MCFixtures ==
    {Fixture(approvals, transfers, balances, completeness, quality) :
        approvals \in {S \in SUBSET FixtureApprovals : Cardinality(S) <= 2},
        transfers \in SUBSET FixtureTransfers, balances \in FixtureBalances,
        completeness \in FixtureCoverages, quality \in {"fresh", "missing"}}
\* Texts of a model: nothing, a forbidden phrase, a claim that the rules make,
\* one about a risk that may not be there, one that cites what is not there.
Candidate(forbidden, claims) == [forbidden |-> forbidden, claims |-> claims]

MCCandidates ==
    LET gap == Claim("source_coverage", {<<"coverage", None>>})
        approval == Claim("approval", {<<"approval", a1>>})
    IN  {Candidate(FALSE, {}), Candidate(TRUE, {}), Candidate(FALSE, {gap}),
         Candidate(FALSE, {gap, approval}),
         Candidate(FALSE, {Claim("approval", {<<"approval", a1>>, <<"approval", None>>})}),
         Candidate(FALSE, {Claim("approval", {})})}
=============================================================================
