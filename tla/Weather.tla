------------------------------- MODULE Weather -------------------------------
(***************************************************************************)
(* The forecast on the start page.  weather.js asks the server for the     *)
(* region chosen by the visitor, handleWeather of main.go asks the         *)
(* upstream service, merges its answer with the last one of the region     *)
(* and hands out the result.  A forecast has one value for each position   *)
(* (today, tomorrow, ...); a value that the service does not give is Null: *)
(* a missing key, a JSON null, an empty text or one of the placeholders    *)
(* isNullishString knows.  Requests of other visitors do what a request of *)
(* this page does whose answer gets lost.  Positions are counted from the  *)
(* day of each answer; what a date change does to them is left out.        *)
(***************************************************************************)
EXTENDS Naturals

CONSTANTS
    Regions,    \* a prefecture and a city
    Positions,  \* of the array "forecasts"
    Fetches,    \* calls of fetchWeather that may be under way at once
    Null

VARIABLES
    title,   \* the region named above the forecast, which the page has stored
    shown,   \* temperature and weather, which keep their text if there is none
    cache,   \* weatherCache: the last forecast handed out for each region
    fetch    \* the calls under way

weatherVars == <<title, shown, cache, fetch>>

Value(r, i) == [region |-> r, position |-> i]
Values == [region : Regions, position : Positions]
Forecasts == [Positions -> Values \union {Null}]
NothingKnown == [i \in Positions |-> Null]

\* What the service answers for a region: any part of the forecast.
Issued(r) == {[i \in Positions |-> IF i \in known THEN Value(r, i) ELSE Null] :
                  known \in SUBSET Positions}
Complete(forecast) == \A i \in Positions : forecast[i] # Null

NotFetching == [at |-> "idle"]
Useless == [at |-> "useless"]
FetchStates == {NotFetching, Useless}
    \union [at : {"asked"}, region : Regions]
    \union [at : {"upstream", "answered"}, region : Regions, forecast : Forecasts]

WeatherTypeOK ==
    /\ title \in Regions
    /\ shown \in Forecasts
    /\ cache \in [Regions -> Forecasts]
    /\ fetch \in [Fetches -> FetchStates]

WeatherInit ==
    /\ title \in Regions
    /\ shown = NothingKnown
    /\ cache = [r \in Regions |-> NothingKnown]
    /\ fetch = [f \in Fetches |-> NotFetching]

-----------------------------------------------------------------------------
(***************************************************************************)
(* The page asks                                                           *)
(***************************************************************************)

\* fetchWeather up to its call of the server; the title is set first.
Ask(f, r) ==
    /\ fetch[f] = NotFetching
    /\ fetch' = [fetch EXCEPT ![f] = [at |-> "asked", region |-> r]]
    /\ title' = r
    /\ UNCHANGED <<shown, cache>>

\* Mistaken variant: the page asks when it is opened and never again.
PollOnce(f) == Ask(f, title) /\ shown = NothingKnown

\* When the page is opened and every hour from then on, whether or not the
\* last call has been answered.
Poll(f) == Ask(f, title)

\* The visitor stores another region, which asks at once.
SaveLocation(f, r) == r # title /\ Ask(f, r)

-----------------------------------------------------------------------------
(***************************************************************************)
(* The server                                                              *)
(***************************************************************************)

\* mergeWeatherValue; positions are merged by index (mergeWeatherSlices).
MergeWeatherValue(old, new) == IF new = Null THEN old ELSE new

\* Mistaken variant: old values are taken from another index.
MergeWeatherMainShifted(old, new) ==
    [i \in Positions |-> MergeWeatherValue(old[CHOOSE j \in Positions : j # i], new[i])]

\* Mistaken variant: what the service leaves out is gone.
MergeWeatherMainReplacing(old, new) == [i \in Positions |-> new[i]]

MergeWeatherMain(old, new) ==
    [i \in Positions |-> MergeWeatherValue(old[i], new[i])]

\* fetchWeatherAPI is answered with a forecast.
AnswerUpstream(f, forecast) ==
    /\ fetch[f].at = "asked"
    /\ forecast \in Issued(fetch[f].region)
    /\ fetch' = [fetch EXCEPT ![f] = [at |-> "upstream", region |-> @.region,
                                      forecast |-> forecast]]
    /\ UNCHANGED <<title, shown, cache>>

\* It fails, is answered with a status of 400 or more, or with something that
\* is not a JSON object: nothing is merged.
FailUpstream(f) ==
    /\ fetch[f].at = "asked"
    /\ fetch' = [fetch EXCEPT ![f] = Useless]
    /\ UNCHANGED <<title, shown, cache>>

\* An object without a body, or whose main_data cannot be decoded, replaces
\* what was cached for the region.
AnswerWithoutForecast(f) ==
    /\ fetch[f].at = "asked"
    /\ cache' = [cache EXCEPT ![fetch[f].region] = NothingKnown]
    /\ fetch' = [fetch EXCEPT ![f] = Useless]
    /\ UNCHANGED <<title, shown>>

\* mergeWeatherResponse, under weatherCacheMu from its first line to its last.
MergeWeatherResponse(f) ==
    LET r == fetch[f].region
        merged == MergeWeatherMain(cache[r], fetch[f].forecast)
    IN  /\ fetch[f].at = "upstream"
        /\ cache' = [cache EXCEPT ![r] = merged]
        /\ fetch' = [fetch EXCEPT ![f] = [at |-> "answered", region |-> r, forecast |-> merged]]
        /\ UNCHANGED <<title, shown>>

\* The server stops and starts again: the cache is gone, and so are the
\* calls that have not been answered.
Restart ==
    /\ cache' = [r \in Regions |-> NothingKnown]
    /\ fetch' = [f \in Fetches |->
                    IF fetch[f].at \in {"idle", "answered"} THEN fetch[f] ELSE Useless]
    /\ UNCHANGED <<title, shown>>

-----------------------------------------------------------------------------
(***************************************************************************)
(* The page is answered                                                    *)
(***************************************************************************)

\* The rest of fetchWeather: a text is replaced only by another one.
Show(f) ==
    /\ fetch[f].at = "answered"
    /\ shown' = [i \in Positions |-> IF fetch[f].forecast[i] = Null THEN shown[i]
                                     ELSE fetch[f].forecast[i]]
    /\ fetch' = [fetch EXCEPT ![f] = NotFetching]
    /\ UNCHANGED <<title, cache>>

\* The answer is lost, or has no main_data and ends in the console.
GiveUp(f) ==
    /\ fetch[f].at \in {"asked", "answered", "useless"}
    /\ fetch' = [fetch EXCEPT ![f] = NotFetching]
    /\ UNCHANGED <<title, shown, cache>>

WeatherNext ==
    \/ \E f \in Fetches :
          \/ Poll(f)
          \/ \E r \in Regions : SaveLocation(f, r)
          \/ \E forecast \in Forecasts : AnswerUpstream(f, forecast)
          \/ FailUpstream(f) \/ AnswerWithoutForecast(f)
          \/ MergeWeatherResponse(f)
          \/ Show(f) \/ GiveUp(f)
    \/ Restart

WeatherSpec == WeatherInit /\ [][WeatherNext]_weatherVars

\* Goroutines and callbacks run, a call that fails ends, the timer of the page
\* goes on.  Of the service and the network, and of whoever restarts the
\* server: a page that does not stop asking gets a complete forecast again and
\* again.
WeatherFairSpec ==
    /\ WeatherSpec
    /\ \A f \in Fetches :
          /\ WF_weatherVars(Poll(f))
          /\ WF_weatherVars(MergeWeatherResponse(f) \/ Show(f) \/ GiveUp(f))
          /\ SF_weatherVars(\E forecast \in Forecasts : Complete(forecast) /\ AnswerUpstream(f, forecast))
          /\ SF_weatherVars(MergeWeatherResponse(f) /\ Complete(fetch[f].forecast))
          /\ SF_weatherVars(Show(f) /\ Complete(fetch[f].forecast))

-----------------------------------------------------------------------------
(***************************************************************************)
(* Properties                                                              *)
(***************************************************************************)

\* However calls for several regions overlap, a value that the server keeps
\* or hands out was given for the region asked for and for the same place in
\* the forecast (parseWeatherRegionKey, mergeWeatherSlices), and the page
\* shows none in another place.
ValuesInPlace ==
    \A i \in Positions :
        /\ \A r \in Regions : cache[r][i] \in {Null, Value(r, i)}
        /\ \A f \in Fetches : fetch[f].at = "answered" =>
              fetch[f].forecast[i] \in {Null, Value(fetch[f].region, i)}
        /\ shown[i] = Null \/ shown[i].position = i

\* What the server has once handed out it does not forget because the service
\* leaves it out later or an older answer is merged last; only an answer
\* without a forecast and a restart make it forget (mergeWeatherResponse).
KnowledgeKept ==
    [][\A r \in Regions, i \in Positions :
          cache[r][i] # Null /\ cache'[r][i] = Null =>
              Restart \/ \E f \in Fetches : AnswerWithoutForecast(f)]_weatherVars

\* A visitor who has settled on a region sees its forecast in the end,
\* whatever older calls for other regions still bring (fetchWeather, which
\* neither cancels nor compares).
TitleCatchesUp ==
    \A r \in Regions :
        <>[](title = r) =>
            <>[](\A i \in Positions : shown[i] = Value(r, i))
=============================================================================
