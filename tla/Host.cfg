CONSTANTS
  ChannelSize = 1
  MaxPrompts = 2
  MaxEvents = 2
  MaxAsks = 1
  MaxSessions = 1
SPECIFICATION HostSpec
INVARIANTS TurnIsItsOwn EventsArePrinted
PROPERTIES HostGoesOn
CHECK_DEADLOCK FALSE
