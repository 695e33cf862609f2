------------------------------ MODULE MC_Request ------------------------------
(* Instances of SpxRequest for TLC. *)
EXTENDS SpxRequestReport, TLC

MC_Metrics == {"wt", "zm", "ct"}
MC_Names   == MC_Metrics \cup {"", "0", "1", "2x", "99999999", "full", "fp", "trace",
                               "wt,zz", "zz", "k", "bad", "/"}
MC_Bits    == 3
MC_Hosts   == {"a1", "a2", "a7", "net", "none"}

\* Texts of one token.
Word(w)         == [is |-> w, tokens |-> {w}, one |-> FALSE, number |-> 0, whole |-> FALSE]
One             == [Word("1") EXCEPT !.one = TRUE, !.number = 1, !.whole = TRUE]
Zero            == [Word("0") EXCEPT !.whole = TRUE]
TwoAndMore      == [Word("2x") EXCEPT !.number = 2]
TooMuch         == [Word("99999999") EXCEPT !.number = 99999999, !.whole = TRUE]
WallAndUnknown  == [Word("wt,zz") EXCEPT !.tokens = {"wt", "zz"}]

\* Addresses of three bits; 7 is INADDR_NONE.
At(text, n)           == [text |-> text, ip |-> n]
Host(text, n)         == [text |-> text, ip |-> n, bits |-> 0]
Net(text, n, bits)    == [text |-> text, ip |-> n, bits |-> bits]
Anyone                == Host("*", 7)

From(a)               == [REMOTE_ADDR |-> a, FORWARDED |-> NoAddress]
Through(proxy, a)     == [REMOTE_ADDR |-> proxy, FORWARDED |-> a]

Open(ip_var, proxies, list) ==
  [enabled |-> TRUE, ip_var |-> ip_var, trusted_proxies |-> proxies, ip_whitelist |-> list]

Nothing == <<>>

Settings(gate, key, source) == [gate |-> gate, http_key |-> key, source |-> source]

Direct == Open("REMOTE_ADDR", {}, {Net("net", 4, 2)})
Proxy  == Open("FORWARDED", {Host("a1", 1)}, {Host("a2", 2), Anyone})
Behind == Open("FORWARDED", {Anyone}, {Anyone})

MC_Inis ==
  {Settings(Direct, "k", [enabled |-> One]),
   Settings(Direct, "", Nothing),
   Settings(Proxy, "k", [enabled |-> One, auto_start |-> One, depth |-> TwoAndMore,
                         metrics |-> Word("ct")]),
   Settings(Behind, "k", Nothing),
   Settings([Direct EXCEPT !.enabled = FALSE], "k", Nothing)}

MC_Environments ==
  {Nothing, [enabled |-> One, report |-> Word("trace")],
   [enabled |-> One, report |-> Word("bad"), fp_focus |-> Word("ct"), fp_limit |-> TwoAndMore],
   [enabled |-> One, report |-> Word("full"), metrics |-> WallAndUnknown, ui_uri |-> Word("/")]}

Sends(cookie, header, query, server) ==
  [cookie |-> cookie, header |-> header, query |-> query, server |-> server]

Key == [key |-> Word("k")]

MC_Clients ==
  {Sends(Nothing, Nothing, Nothing, From(At("a2", 2))),
   Sends(Key, Nothing, [ui_uri |-> Word("/")], From(At("a2", 2))),
   Sends(Key, Nothing, [ui_uri |-> Word("/")], From(At("a7", 5))),
   Sends([enabled |-> One, depth |-> One], [key |-> Word("bad")], [depth |-> TooMuch],
         From(At("a7", 5))),
   Sends([key |-> Word("k"), enabled |-> One, depth |-> One], [sampling_period |-> One],
         [auto_start |-> Zero, metrics |-> WallAndUnknown, depth |-> TooMuch], Through(At("a1", 1), At("a2", 2))),
   Sends(Key, [enabled |-> One], Nothing, Through(NoAddress, At("a2", 2))),
   Sends(Key, [enabled |-> One, report |-> Word("fp")], [enabled |-> Zero, sampling_period |-> TwoAndMore],
         Through(At("a1", 1), At("none", 7)))}

\* Blocks differ in nothing but what happens to them.
MC_Symmetry == Permutations(Blocks)

MC_Taken == {{}, {"execute_internal", "error_cb"}}
=============================================================================
