----------------------------- MODULE MCTelemetry -----------------------------
(***************************************************************************)
(* Instances of Telemetry.  The names are those of manual jobs, of scrape  *)
(* jobs and of principals; two of them differ in punctuation only, one is  *)
(* the label of the local scrape, two are those of one principal's jobs.   *)
(***************************************************************************)
EXTENDS Telemetry

Names == {"default", "juju", "remote_syslog", "api-v1", "api_v1", "db_0", "db_0_1", "web_0"}
Sanitize == [n \in Names |-> IF n = "api-v1" THEN "api_v1" ELSE n]
Suffix == [x \in {<<"db_0", 1>>} |-> "db_0_1"]

Asks(manual, units, kernel, hostMatches, syslog) ==
  [manual |-> manual, units |-> units, kernel |-> kernel,
   hostMatches |-> hostMatches, syslog |-> syslog, override |-> FALSE]

(* One or two of each thing, names that meet, a list that is refused. *)
Options ==
  {Asks(<<>>, 0, FALSE, 0, FALSE), Asks(<<"api_v1">>, 1, FALSE, 0, FALSE),
   Asks(<<>>, 2, TRUE, 0, FALSE), Asks(<<>>, 0, TRUE, 1, TRUE),
   Asks(<<"api_v1", "api-v1">>, 0, FALSE, 1, FALSE),
   Asks(<<"api_v1", "api_v1">>, 1, FALSE, 0, TRUE),
   Asks(<<"default">>, 0, FALSE, 0, TRUE), Asks(<<"db_0", NoName>>, 1, TRUE, 0, FALSE),
   [Asks(<<"db_0">>, 1, TRUE, 1, TRUE) EXCEPT !.override = TRUE],
   Asks(<<"db_0_1", "api-v1">>, 1, TRUE, 1, TRUE)}

Job(n, u, supported) == [name |-> n, unit |-> u, supported |-> supported]

Offers ==
  {{}, {Job("api-v1", "u1", TRUE)},
   {Job("api_v1", "u1", TRUE), Job("web_0", "u2", TRUE), Job("db_0", "u2", FALSE)}}

Overrides ==
  {[u \in Scraped |-> NoName], [u \in Scraped |-> "juju"],
   [u \in Scraped |-> IF u = "u1" THEN "db_0" ELSE NoName]}

Publishes(n, endpoints, units, matches, files) ==
  [name |-> n, endpoints |-> endpoints, units |-> units, matches |-> matches,
   files |-> files]

Payloads ==
  {NoPayload, Broken, Publishes("db_0", 2, 0, 0, FALSE), Publishes("db_0", 0, 0, 2, TRUE),
   Publishes("web_0", 1, 2, 1, TRUE)}

(* An operator with journal options and a Loki, nothing else. *)
JournalOptions ==
  {Asks(<<>>, units, kernel, 0, FALSE) : units \in {0, 1}, kernel \in BOOLEAN}
=============================================================================
