---------------------------- MODULE MCDashboard ----------------------------
(* The dashboard's pages on small instances.                               *)
EXTENDS Dashboard

MCTyped ==
    [name |-> {"n2", Spaces}, kind |-> {"mcp", "http"}, url |-> {"u2"},
     transport |-> {"streamable-http"}, test_path |-> {"/t"},
     auth_type |-> AuthTypes, token |-> {"x", Spaces},
     header |-> {"h2", "", Spaces}, param |-> {"p2", ""}, value |-> {"x", Spaces},
     client_id |-> {"c", Spaces}, client_secret |-> {"s"},
     register_client |-> BOOLEAN, enabled |-> BOOLEAN, clear_stored |-> BOOLEAN]

UpRow(id, kind, type, blob) ==
    [id |-> id, name |-> "n", kind |-> kind, url |-> "u", enabled |-> TRUE,
     transport |-> "streamable-http", test_path |-> "", auth_type |-> type,
     stored |-> blob]

\* One row in each state a stored credential can be in, and every edit of it.
Seeds ==
    {UpRow("a", "mcp", "none", b) : b \in {Nothing, Blob("token", "")}}
    \cup {UpRow("a", "mcp", "bearer", b) : b \in {Blob("token", ""), Blob("sealed", "")}}
    \cup {UpRow("a", "mcp", "header", b) : b \in {Blob("header", "h"), Blob("token", "")}}
    \cup {UpRow("a", "http", "query", Blob("param", "p"))}
    \cup {UpRow("a", "mcp", "oauth", b) :
             b \in {Nothing, Blob("client", ""), Blob("set", ""), Blob("lapsed", ""),
                   Blob("sealed", "")}}

Signed(id) == UpRow(id, "mcp", "oauth", Blob("set", ""))

MCUpScenarios ==
    \* every pair of edits of one row, and three of the fields a credential
    \* depends on
    {[rows |-> {u}, opens |-> 1, edits |-> 2, others |-> 0, fails |-> 0,
      fields |-> DOMAIN MCTyped] : u \in Seeds}
    \cup {[rows |-> {u}, opens |-> 1, edits |-> 3, others |-> 0, fails |-> 0,
           fields |-> {"auth_type", "url", "token", "client_id", "clear_stored"}]
          : u \in Seeds}
    \* three dialogs over two signed-in rows
    \cup {[rows |-> {Signed("a"), Signed("b")}, opens |-> 3, edits |-> 1,
           others |-> 0, fails |-> 0, fields |-> {"url"}]}
    \* another operator, and a failing network
    \cup {[rows |-> {Signed("a"), Signed("b")}, opens |-> x[1], edits |-> 1,
           others |-> x[2], fails |-> x[3], fields |-> {"url"}]
          : x \in {<<2, 1, 0>>, <<2, 0, 1>>, <<1, 1, 1>>}}
    \* Discover in the Add dialog, and a row created twice
    \cup {[rows |-> {}, opens |-> 1, edits |-> 4, others |-> 0, fails |-> 0,
           fields |-> {"url", "auth_type", "header"}],
          [rows |-> {}, opens |-> 2, edits |-> 2, others |-> 0, fails |-> 0,
           fields |-> {"name", "url"}]}

----------------------------------------------------------------------------

Member(id, kind, on, tools) ==
    [id |-> id, slug |-> id, kind |-> kind, enabled |-> on, tools |-> tools]

\* Two members share a tool, one has a name no entry can hold, one is an HTTP
\* API and one is disabled.
MCUpstreams ==
    {Member("a", "mcp", TRUE, {<<"x">>, <<"x", "y">>}),
     Member("b", "mcp", TRUE, {<<"x">>, <<"x", " ">>}),
     Member("c", "http", TRUE, {}), Member("d", "mcp", FALSE, {<<"y">>})}

MCGroupEntries ==
    {Entry("a", <<"x">>), Entry("", <<"x">>), Entry("a", <<>>), Entry(BadSlug, <<"x">>)}

Filter(m, tools) == RawFilter("object", m, tools, {})
Broken == RawFilter("text", "", {}, {})
EmptyAllow == Filter("allow", {})
Scoped == Filter("allow", {Entry("a", <<"x">>)})
Unscoped == Filter("deny", {Entry("", <<"x">>)})
MCOtherFilters == {NoFilter, Unscoped, Broken}

GroupRow(id, ids, filter) ==
    [id |-> id, name |-> "n", upstream_ids |-> ids, tool_filter |-> filter]

Scenario(rows, opens, edits, loads, others, fails) ==
    [rows |-> rows, opens |-> opens, edits |-> edits, loads |-> loads,
     others |-> others, fails |-> fails]

Filters == {NoFilter, Broken, EmptyAllow, Scoped, Unscoped, Filter("deny", {})}

\* Three edits of every kind of filter; two, with the tools loaded; two presses
\* with a failure; two dialogs; another operator; and a group created.
MCGroupScenarios ==
    {Scenario({GroupRow("g", {"a", "b"}, t)}, 1, 3, 0, 0, 0) : t \in Filters}
    \cup {Scenario({GroupRow("g", {"a", "b"}, t)}, 1, 2, 1, 0, 0) :
             t \in {EmptyAllow, Scoped, Unscoped}}
    \cup {Scenario({GroupRow("g", {"a", "b"}, t)}, 1, 1, 2, 0, 1) : t \in {Unscoped}}
    \cup {Scenario({GroupRow("g", {"a", "b"}, Scoped)}, 1, 1, 1, 0, 1)}
    \cup {Scenario({GroupRow("g", {"a"}, t), GroupRow("h", {"b"}, Scoped)}, 2, 1, 1, 0, 0) :
             t \in {Broken, Scoped}}
    \cup {Scenario({GroupRow("g", {"a"}, t)}, 2, 1, 0, 1, 0) : t \in {Broken, Scoped}}
    \cup {Scenario({GroupRow("g", {"a"}, t)}, 1, 1, 0, 1, 1) : t \in {Broken, Scoped, NoFilter}}
    \cup {Scenario({GroupRow("g", {"a", "b", "d"}, Unscoped)}, 1, 0, 1, 0, 1)}
    \cup {Scenario({}, 1, 4, 1, 0, 0)}

KeyRow(id, type, target, allow, deny, broken) ==
    [id |-> id, name |-> "n", target_type |-> type, target_id |-> target,
     rate_limit |-> "5", tool_allowlist |-> allow, tool_denylist |-> deny,
     http_methods |-> {"GET"}, lists_malformed |-> broken, methods_malformed |-> broken,
     revoked |-> FALSE, secret |-> 1, refused |-> {"http"}]

KeyGroup(id, ids, filter) == [id |-> id, upstream_ids |-> ids, tool_filter |-> filter]
MCKeyGroups == {KeyGroup("g", {"a", "b", "c"}, Scoped), KeyGroup("h", {"a"}, Broken)}

MCKeyEntries == {Entry("a", <<"x">>), Entry("", <<"x">>), Entry("a", <<>>)}

MCKeyTyped == {<<"name", "n2">>, <<"name", " ">>, <<"rate_limit", "05">>, <<"rate_limit", "">>}

MCOtherLists == {[tool_allowlist |-> {}, tool_denylist |-> {}],
                 [tool_denylist |-> {Entry("", <<"x">>)}]}

OnUpstream == KeyRow("k", "upstream", "a", {}, {}, FALSE)
Allowing(id) == KeyRow(id, "group", "g", {Entry("a", <<"x">>)}, {}, FALSE)
Denying == KeyRow("k", "group", "g", {}, {Entry("", <<"x">>)}, FALSE)
Unreadable == KeyRow("k", "group", "h", {}, {}, TRUE)

\* The same situations for a key, and every pair of presses on two rows.
MCKeyScenarios ==
    {Scenario({k}, 1, 2, 1, 0, 0) : k \in {OnUpstream, Allowing("k"), Denying, Unreadable}}
    \cup {Scenario({k}, 1, 1, 0, 1, 1) : k \in {OnUpstream, Allowing("k"), Denying, Unreadable}}
    \cup {Scenario({Unreadable, Allowing("l")}, 2, 1, 0, 0, 0)}
    \cup {Scenario({k}, 1, 0, 1, 0, 1) : k \in {Denying, Allowing("k")}}
    \cup {Scenario({}, 1, 4, 0, 0, 0), Scenario({}, 1, 3, 1, 0, 0)}

============================================================================
