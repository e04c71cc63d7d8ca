\* Two keymaps from the compositor after the default one; a second seat.
SPECIFICATION FairSpec
CONSTANTS
  Keymaps = {k1, k2}
  NamesKeymap = names
  NoKeymap = null
  MaxSeats = 2
INVARIANTS ParentsOutlive XkbPaired NothingLeft ContextHandedOver ConfiguredByOurs
PROPERTIES GlUnderContext HandshakeCompletes
