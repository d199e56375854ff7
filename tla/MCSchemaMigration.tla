------------------------- MODULE MCSchemaMigration -------------------------
(***************************************************************************)
(* Three builds, after the history of the repository's own files: build 2  *)
(* removes a CREATE from a file that build 1 applied (as 002 lost its      *)
(* reply tables), adds a column to a raw table by editing its CREATE in    *)
(* place, and rebuilds the feed with fewer columns by DROP and CREATE in a *)
(* new file (as 017 does to 014); build 3 no longer declares the view nor  *)
(* that column of the raw table, changes the feed's column in place, and   *)
(* adds a file with a statement that needs the feed and a new table.       *)
(***************************************************************************)
EXTENDS SchemaMigration

CONSTANTS v1, v2, v3, f1, f2, f3, f4, raw, old, feed, extra, mv, a, b

Cr(o, c) == [op |-> "create", obj |-> o, cols |-> c]
Dr(o) == [op |-> "drop", obj |-> o, cols |-> {}]
Us(o) == [op |-> "use", obj |-> o, cols |-> {}]

MCBuilds == {v1, v2, v3}
MCFilesOf == [v \in MCBuilds |->
    CASE v = v1 -> <<f1, f2>> [] v = v2 -> <<f1, f2, f3>> [] OTHER -> <<f1, f2, f3, f4>>]
MCStmts == [v \in MCBuilds |->
    CASE v = v1 -> [f \in {f1, f2} |-> IF f = f1
              THEN <<Cr(raw, {a}), Cr(old, {a})>> ELSE <<Cr(feed, {a, b})>>]
      [] v = v2 -> [f \in {f1, f2, f3} |->
              IF f = f1 THEN <<Cr(raw, {a, b})>> ELSE IF f = f2 THEN <<Cr(feed, {a, b})>>
              ELSE <<Dr(feed), Cr(feed, {a}), Cr(mv, {})>>]
      [] OTHER -> [f \in {f1, f2, f3, f4} |->
              IF f = f1 THEN <<Cr(raw, {a})>> ELSE IF f = f2 THEN <<Cr(feed, {a, b})>>
              ELSE IF f = f3 THEN <<Dr(feed), Cr(feed, {b})>>
              ELSE <<Us(feed), Cr(extra, {b})>>]]
MCTables == {raw, old, feed, extra}

Forward == {<<v1, v2>>, <<v1, v3>>, <<v2, v3>>}

ASSUME HistoryAssumption == ForwardHistory
=============================================================================
