\* Three keys and three values: a key can lose one of several values, its last
\* value, and a value can be shared by some keys and unique to none.
SPECIFICATION MapSpec
CONSTANTS
  Keys = {k1, k2, k3}
  Values = {v1, v2, v3}
INVARIANTS Mirror RemoveKeysIsLoop
PROPERTY ImplementsRelation
