CONSTANTS
  c1 = c1
  c2 = c2
  c3 = c3
  o1 = o1
  o2 = o2
  o3 = o3
  Contexts = {c1, c2, c3}
  Ops = {o1, o2, o3}
  Stoppable = {o1, o2}
  Adaptor = {o1, o2}
  Channels = {"value", "stopped"}
SPECIFICATION Spec
INVARIANTS CallbackScoped
