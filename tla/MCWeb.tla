--------------------------------- MODULE MCWeb ---------------------------------
(***************************************************************************)
(* WebClient with the calls and the responses that make its cases happen.  *)
(***************************************************************************)
EXTENDS WebClient

Calls(program, schemes, slashes, ports) ==
  [program : {program}, scheme : schemes, slash : slashes, port : ports, head : BOOLEAN]

\* Good URLs with and without TLS, and those that the programs refuse or
\* misread; simple-web-downloader knows no scheme.
RunsMC ==
  Calls("https", {"none", "http", "https"}, BOOLEAN, {NoPort, 0, 80, 443})
    \cup Calls("secure", {"none", "http", "https"}, {TRUE}, {NoPort, 443})
    \cup Calls("simple", {"none"}, {TRUE}, {NoPort})

\* A header that a buffer of 6 holds with its end or does not, an empty body
\* and one with a zero byte in it, and a byte that follows the body.
ResponsesMC ==
  [header : {1, 3}, length : BOOLEAN, body : {0, 3}, zeros : {{}, {2}}, extra : {0, 1}]
=============================================================================
