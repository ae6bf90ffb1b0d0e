CONSTANT TRAY_SIZE = 2
SPECIFICATION Spec
PROPERTY NonVeganOrdersLeaveVeganTray
