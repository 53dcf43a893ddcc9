------------------------------ MODULE Timestamp ------------------------------
(***************************************************************************)
(* The ts of an audit event: rfc3339_utc and civil_from_days of            *)
(* src/src/audit.rs, beside a calendar that is turned one day at a time.   *)
(***************************************************************************)
EXTENDS Integers

-----------------------------------------------------------------------------
(* audit.rs. *)

(* The year of an era of 400 years, which begin on the first of March.     *)
Yoe(doe) == (doe - doe \div 1460 + doe \div 36524 - doe \div 146096) \div 365

CivilFromDays(day0) ==
  LET z   == day0 + 719468
      era == z \div 146097
      doe == z % 146097
      yoe == Yoe(doe)
      doy == doe - (365 * yoe + yoe \div 4 - yoe \div 100)
      mp  == (5 * doy + 2) \div 153
      m   == IF mp < 10 THEN mp + 3 ELSE mp - 9
  IN  [y |-> yoe + era * 400 + (IF m <= 2 THEN 1 ELSE 0),
       m |-> m,
       d |-> doy - (153 * mp + 2) \div 5 + 1]

(* What the format string of rfc3339_utc is filled with. *)
Rfc3339Utc(unix_ms) ==
  LET secs == unix_ms \div 1000
      sod  == secs % 86400
  IN  [date |-> CivilFromDays(secs \div 86400),
       hh |-> sod \div 3600, mm |-> (sod % 3600) \div 60, ss |-> sod % 60,
       millis |-> unix_ms % 1000]

-----------------------------------------------------------------------------
(* The calendar. *)

IsLeap(y) == y % 4 = 0 /\ (y % 100 = 0 => y % 400 = 0)

DaysIn(y, m) ==
  CASE m = 2              -> IF IsLeap(y) THEN 29 ELSE 28
    [] m \in {4, 6, 9, 11} -> 30
    [] OTHER              -> 31

NextDate(t) ==
  IF t.d < DaysIn(t.y, t.m) THEN [t EXCEPT !.d = t.d + 1]
  ELSE IF t.m < 12 THEN [y |-> t.y, m |-> t.m + 1, d |-> 1]
  ELSE [y |-> t.y + 1, m |-> 1, d |-> 1]

=============================================================================
