-------------------------- MODULE MCConfiguration --------------------------
(***************************************************************************)
(* Documents of up to three lines, of which two are within the limit; a    *)
(* line of every kind the parser tells apart, valid and not, and keys that *)
(* occur twice, one with the byte 0x1A in it, and lines that are what      *)
(* another one reads as when it is cut.                                    *)
(***************************************************************************)
EXTENDS Configuration, TLC

MCLines ==
  {Entry("schema_version", "1"), Entry("schema_version", "2"),
   Entry("start_minimized", "true"), Entry("start_minimized", "0"),
   Entry("telemetry_enabled", "yes"), Entry("minimum_log_severity", " error"),
   Entry("minimum_log_severity", "loud"), Entry("log_directory", ""),
   Entry("preferred_render_endpoint_id", "1"),
   Entry("preferred_render_endpoint_id", ""), Entry("log_directory", "1^Z1"),
   Entry("log_directory", "1"),
   Entry(Skipped, ""), Entry(NoEquals, ""), Entry("colour", "1")}
MCTrimmed == " error" :> "error"
MCNumbers == ("1" :> 1) @@ ("2" :> 2)
MCBeginnings ==
  [l \in MCLines |->
     IF l.value = "1^Z1" THEN {Entry(NoEquals, ""), Entry("log_directory", "1")}
     ELSE IF l = Entry("log_directory", "1") THEN {Entry("log_directory", "")}
     ELSE IF l = Entry("preferred_render_endpoint_id", "1")
          THEN {Entry("preferred_render_endpoint_id", "")}
     ELSE IF l.key \in {Skipped, NoEquals} THEN {} ELSE {Entry(NoEquals, "")}]
MCControlZ == Entry("log_directory", "1^Z1") :> Entry("log_directory", "1")
MCNoControlZ == <<>>
============================================================================
