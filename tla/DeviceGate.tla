----------------------------- MODULE DeviceGate -----------------------------
(***************************************************************************)
(* How a filter matches a device (device/devicegate/filter.go): by the     *)
(* values the device's metadata has for the filter's key, or else by those *)
(* of its claims.  A value that is not a list is a list of one.            *)
(***************************************************************************)
CONSTANTS
    FilterKeys,  \* keys of filters, of metadata and of claims
    Values,      \* what a key may be associated with
    NoValue      \* the key is missing

\* A FilterStore: the values devices are kept out by, NoValue for no filter.
FilterStores == [FilterKeys -> (SUBSET Values) \cup {NoValue}]

Descriptors ==
    [metadata : [FilterKeys -> (SUBSET Values) \cup {NoValue}],
     claims   : [FilterKeys -> (SUBSET Values) \cup {NoValue}]]

FilterMatch(filterValues, params) == \E v \in params : v \in filterValues

\* Claims are looked at only for a key the metadata map does not have.
MetadataMatch(key, filterValues, d) ==
    LET val == IF d.metadata[key] # NoValue THEN d.metadata[key] ELSE d.claims[key]
    IN  val # NoValue /\ FilterMatch(filterValues, val)

\* The keys whose filter matches d; the connection is allowed if there is none.
Matches(store, d) ==
    {key \in FilterKeys : store[key] # NoValue /\ MetadataMatch(key, store[key], d)}

AllowConnection(store, d) == Matches(store, d) = {}
=============================================================================
