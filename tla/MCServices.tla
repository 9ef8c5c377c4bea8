---- MODULE MCServices ----
(***************************************************************************)
(* Five services that share no state, checked side by side: a behaviour    *)
(* runs one of them and leaves the others where they begin.                *)
(***************************************************************************)
EXTENDS SettingsCache, DomainExpiry, GeoCache, BgpBridge, HeartbeatFeed,
        TLC

VARIABLE part

\* One setting has no row yet, the other a row that is not JSON.
FirstKey == CHOOSE k \in Key : TRUE

Services ==
    /\ SettingsInit /\ DomainInit /\ GeoInit /\ BridgeInit /\ FeedInit
    /\ part \in {"settings", "domain", "geo", "bgp", "feed"}
    /\ Cardinality({k \in Key : settingRow[k] = None}) = 1
    /\ settingRow[FirstKey] = None

Rest(p) ==
    /\ p # "settings" => UNCHANGED settingsVars
    /\ p # "domain" => UNCHANGED domainVars
    /\ p # "geo" => UNCHANGED geoVars
    /\ p # "bgp" => UNCHANGED bridgeVars
    /\ p # "feed" => UNCHANGED feedVars

Steps ==
    /\ UNCHANGED part
    /\ \/ part = "settings" /\ SettingsNext
       \/ part = "domain" /\ DomainNext
       \/ part = "geo" /\ GeoNext
       \/ part = "bgp" /\ BridgeNext
       \/ part = "feed" /\ FeedNext
    /\ Rest(part)

MCServicesSpec == Services /\ [][Steps]_<<settingsVars, domainVars, geoVars, bridgeVars,
                                        feedVars, part>>

Alike == Permutations(Setter) \cup Permutations(Sender) \cup Permutations(Ip)
====
