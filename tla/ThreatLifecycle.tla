---------------------------- MODULE ThreatLifecycle ----------------------------
(***************************************************************************)
(* How long a threat may stay on the map                                   *)
(* (services/missile_lifecycle_service.py, with the speeds and the         *)
(* kinematics of core/threat_types.py).  Times are in seconds.             *)
(***************************************************************************)
EXTENDS Integers

(* km/h; types not listed fly at 300.  0 is for what does not fly.         *)
Speed == [shahed |-> 165, reactive_uav |-> 500, jet_shahed |-> 500,
          cruise_missile |-> 850, ballistic |-> 5500, mig31k |-> 2500,
          kab |-> 900, tu95 |-> 800, tu22m3 |-> 4200, su35_su57 |-> 950,
          iskander |-> 5500, artillery |-> 1200, urban_fights |-> 0,
          chemical |-> 50, nuclear |-> 0, zircon |-> 11000, mlrs |-> 2200,
          fpv |-> 140, recon |-> 120, recon_uav |-> 120,
          official_alarm |-> 0, unknown |-> 300]

ThreatType == DOMAIN Speed

AtLeast(n, m) == IF n < m THEN m ELSE n
AtMost(n, m) == IF n > m THEN m ELSE n

(* Flying time over a distance, with what the launch takes.                *)
Flight(type, km) ==
  LET t == (3600 * km) \div Speed[type] IN
  IF type \in {"ballistic", "iskander", "tu22m3"} THEN AtLeast(t + 60, 120)
  ELSE IF type = "mig31k" THEN AtLeast(t + 120, 300)
  ELSE IF type = "tu95" \/ type = "su35_su57" THEN AtLeast(t + 600, 900)
  ELSE t

(* The longest a threat may stay.  The table MAX_FLIGHT_TIMEOUT_SECONDS is *)
(* asked only for what does not fly, and lists none of that: 900.          *)
Distance == 150
MaxFlight(type) ==
  IF Speed[type] = 0 THEN 900
  ELSE IF type = "kab" THEN AtMost(Flight(type, Distance) + 120, 300)
  ELSE AtMost(Flight(type, Distance) + 180, 2700)

Fast(type) ==
  type \in {"cruise_missile", "ballistic", "mig31k", "kab", "tu95", "iskander"}

(***************************************************************************)
(* The time a report gives: a number of seconds, a text, or nothing.  Of a *)
(* range the later end counts; a bare number below 180 is in minutes.      *)
(* Its numbers are the ends of a range, hours and minutes, or n alone.     *)
(***************************************************************************)
Eta == [form : {"none", "seconds", "minutes", "minutes_range", "hours",
                "hours_range", "hours_minutes", "bare"}, from : Nat, n : Nat]

EtaSeconds(eta) ==
  IF eta.form = "none" THEN 0
  ELSE IF eta.form = "seconds" THEN eta.n
  ELSE IF eta.form \in {"minutes", "minutes_range"} THEN 60 * eta.n
  ELSE IF eta.form \in {"hours", "hours_range"} THEN 3600 * eta.n
  ELSE IF eta.form = "hours_minutes" THEN 60 * (60 * eta.from + eta.n)
  ELSE IF eta.n < 180 THEN 60 * eta.n ELSE eta.n

(***************************************************************************)
(* A threat of which the area is not under a siren ends when its time is   *)
(* past, plus a margin, or, without a time, after some minutes.  Any       *)
(* threat ends when no such thing flies so long.  One that is not dated,   *)
(* because the time of its report is missing, cannot be parsed or has no   *)
(* zone, never expires.                                                    *)
(***************************************************************************)
Threat == [type : ThreatType, predictive : BOOLEAN, eta : Eta, dated : BOOLEAN]

Patience(c) ==
  LET eta == EtaSeconds(c.eta) IN
  IF eta > 0 THEN eta + (IF Fast(c.type) THEN 30 ELSE 45)
  ELSE (IF c.predictive THEN 120 ELSE 180) * (IF Fast(c.type) THEN 1 ELSE 2)

(* Fault: under a siren a threat stays whatever its age.                   *)
ExpireWithoutSiren(c, siren, elapsed) ==
  c.dated /\ ~siren /\ (elapsed >= Patience(c) \/ elapsed >= MaxFlight(c.type))

ShouldExpire(c, siren, elapsed) ==
  c.dated /\ ((~siren /\ elapsed >= Patience(c)) \/ elapsed >= MaxFlight(c.type))
===============================================================================
