---------------------------- MODULE MCMigration ----------------------------
(* Migration for TLC: the old columns as the migration's test declares them  *)
(* (args and status NOT NULL), and as they would be without the constraint.  *)
EXTENDS Migration

MCCalls ==
    {[input_json |-> "text", output_json |-> "text", output_size |-> "size",
      is_error |-> "true", called_at |-> "time"],
     [input_json |-> "text", output_json |-> Null, output_size |-> "size",
      is_error |-> "false", called_at |-> "time"]}
MCNotNulls == {{}, {"args", "status"}}
=============================================================================
