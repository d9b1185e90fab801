---------------------------- MODULE MCCheckEmail ----------------------------
EXTENDS CheckEmail, TLC

CONSTANTS a, b, k1, k2, d1

Server(proxy, proxies, overrides, accounts, secret) ==
  [proxy |-> proxy, proxies |-> proxies, overrides |-> overrides,
   identity |-> "ours", accounts |-> accounts, secret |-> secret,
   worker |-> FALSE, postgres |-> accounts]

(* An open server with a default proxy; one for accounts and machines with *)
(* overrides, one of a proxy nobody defined; one that does not load.       *)
ConfigsDef ==
  {Server(a, <<>>, <<>>, FALSE, FALSE),
   Server(None, "second" :> b,
          "mimecast" :> Smtp("unknown", "ours", 25) @@ "yahoo" :> Smtp("second", "ours", 25)
            @@ "hotmailb2c" :> Headless, TRUE, TRUE),
   Server(None, <<>>, "gmail" :> Smtp("unknown", "ours", 25), FALSE, FALSE)}

RequestsDef ==
  {Plain, [Plain EXCEPT !.port = 2525],
   [Plain EXCEPT !.yahoo = "smtp", !.proxy = b],
   [Plain EXCEPT !.hotmailb2c = "smtp"]}

MX(n, h) == [preference |-> n, host |-> h]

MxAnswersDef ==
  {{}, {MX(0, ".")}, {MX(5, "localhost"), MX(10, "mimecast"), MX(10, "google")},
   {MX(5, "yahoodns")}, {MX(5, "olc.outlook")}}

FindingsDef == Found

Symmetry == Permutations(Check)
=============================================================================
