------------------------- MODULE IncidentLifecycle -------------------------
(***************************************************************************)
(* What the incident service promises of each incident, one operation at a *)
(* time: reported -> investigating -> resolved -> closed, never backwards, *)
(* with the rectification measures recorded by the step to resolved.       *)
(***************************************************************************)

CONSTANTS Incidents,      \* primary keys of table safety_incidents
          SeedIncidents,  \* the keys written by seed.go or init.sql
          Measures,       \* non-empty rectification texts
          NoMeasures,     \* the empty column
          NoRow           \* the key is not in the table yet

VARIABLE row              \* the table: row[i] is a row or NoRow

Statuses == {"reported", "investigating", "resolved", "closed"}

Row == [status : Statuses, measures : Measures \cup {NoMeasures}]

\* The seed writes incidents that are already past "reported".
SeedStatuses == {"investigating", "resolved", "closed"}

Present(i) == row[i] # NoRow

InStatus(i, s) == Present(i) /\ row[i].status = s

----------------------------------------------------------------------------

\* Seeded rows carry measures or not, whatever their status: the seed does not
\* follow the rules the service enforces.
Init ==
  \E seed \in [SeedIncidents -> [status : SeedStatuses,
                                 measures : Measures \cup {NoMeasures}]] :
    row = [i \in Incidents |-> IF i \in SeedIncidents THEN seed[i] ELSE NoRow]

Report(i) ==
  /\ ~Present(i)
  /\ row' = [row EXCEPT ![i] = [status |-> "reported", measures |-> NoMeasures]]

Assign(i) ==
  /\ InStatus(i, "reported")
  /\ row' = [row EXCEPT ![i] = [status |-> "investigating",
                                measures |-> row[i].measures]]

Rectify(i, m) ==
  /\ InStatus(i, "investigating")
  /\ row' = [row EXCEPT ![i] = [status |-> "resolved", measures |-> m]]

Close(i) ==
  /\ InStatus(i, "resolved")
  /\ row' = [row EXCEPT ![i] = [status |-> "closed",
                                measures |-> row[i].measures]]

Next == \E i \in Incidents :
          \/ Report(i)
          \/ Assign(i)
          \/ \E m \in Measures : Rectify(i, m)
          \/ Close(i)

Spec == Init /\ [][Next]_row

============================================================================
