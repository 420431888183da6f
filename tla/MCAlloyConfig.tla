---------------------------- MODULE MCAlloyConfig ----------------------------
(***************************************************************************)
(* Instances of AlloyConfig.  The texts stand for the package's config,    *)
(* two renderings that load, one alloy fmt refuses and one that parses but *)
(* that alloy cannot run.                                                  *)
(***************************************************************************)
EXTENDS AlloyConfig

MCText == {"package", "a", "b", "refused", "unloadable"}

MCVerdict ==
  [t \in MCText |-> CASE t = "refused" -> "invalid"
                      [] t = "unloadable" -> "broken"
                      [] OTHER -> "good"]

Asks(t, as, live, metrics) ==
  [text |-> t, args |-> as, live |-> live, syslog |-> FALSE, metrics |-> metrics]

(* Without failing hooks: what alloy loads and what alloy fmt refuses, the *)
(* two errors that stop _configure, live debugging and the listeners.      *)
WantedDrift ==
  {Asks(t, "x", FALSE, "served") : t \in {"a", "b", "refused"}}
    \cup {Asks("a", "x", FALSE, "malformed"), Asks("a", "x", FALSE, "contract"),
          Asks("a", "x", TRUE, "related"),
          [Asks("a", "x", FALSE, "served") EXCEPT !.syslog = TRUE]}

(* Texts and arguments of every kind, for runs in which hooks are killed. *)
WantedCrash ==
  {Asks("a", as, live, "served") : as \in {"x", "y"}, live \in BOOLEAN}
    \cup {Asks("unloadable", "y", FALSE, "served"), Asks("refused", "x", FALSE, "served")}

(* Live debugging and two values of custom_args. *)
WantedArgs ==
  {Asks("a", as, live, "served") : as \in {"x", "y"}, live \in BOOLEAN}

(* A config alloy cannot run comes with other arguments, then is taken back. *)
WantedRevert == {Asks("a", "x", FALSE, "served"), Asks("unloadable", "y", FALSE, "served")}

Up(option, edit, exit, cloud, fault, crash) ==
  [e \in Event |-> CASE e = "option" -> option [] e = "edit" -> edit
                     [] e = "exit" -> exit [] e = "cloud" -> cloud
                     [] e = "fault" -> fault [] e = "crash" -> crash]

LimitDrift == Up(2, 1, 1, 2, 0, 0)
LimitCrash == Up(3, 0, 1, 0, 1, 1)
LimitRevert == Up(2, 0, 0, 0, 0, 0)
LimitArgs == Up(2, 0, 0, 0, 0, 0)
=============================================================================
