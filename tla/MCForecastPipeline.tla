-------------------------- MODULE MCForecastPipeline --------------------------
(***************************************************************************)
(* ForecastPipeline with three runs, of which two have the same date.      *)
(***************************************************************************)
EXTENDS ForecastPipeline, TLC

CONSTANTS r1, r2, r3, d1, d2, wrf1

\* r2 repeats the date of r1.
Twice == (r1 :> d1) @@ (r2 :> d1) @@ (r3 :> d2)

Untagged == (r1 :> NoTag) @@ (r2 :> NoTag) @@ (r3 :> NoTag)

\* r3 runs beside the others.
ThirdTagged == (r1 :> NoTag) @@ (r2 :> NoTag) @@ (r3 :> wrf1)

\* Windows of dates a day apart overlap.
NextDays == {<<d1, d2>>, <<d2, d1>>}

\* The WRF_ID in the script is that of the first day.
FirstDay == (r1 :> d1) @@ (r2 :> d1) @@ (r3 :> d1)

AllOrMean == {RainFiles, {"mean"}}
=============================================================================
