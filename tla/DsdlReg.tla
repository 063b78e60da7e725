------------------------------ MODULE DsdlReg -------------------------------
(***************************************************************************)
(* The schemas of the types of the namespace reg: physics and services of  *)
(* UDRAL, the drone application layer                                      *)
(* (src/Lib/cyphal_public_regulated_data_types_compiled/reg).  A schema is *)
(* what the bodies of X_serialize_ and X_deserialize_ and the two size     *)
(* macros of the type X say: the members in their order, and how each is   *)
(* put on the wire.  A union lists its options in the order of the tag.    *)
(***************************************************************************)
EXTENDS DsdlSi

-----------------------------------------------------------------------------

\* frequency, duration, acoustic_power
reg_udral_physics_acoustics_Note_0_1 ==
  Struct("reg.udral.physics.acoustics.Note", <<0, 1>>, 12, 12,
    <<uavcan_si_unit_frequency_Scalar_1_0,
      uavcan_si_unit_duration_Scalar_1_0, uavcan_si_unit_power_Scalar_1_0>>)

\* current, voltage
reg_udral_physics_electricity_Power_0_1 ==
  Struct("reg.udral.physics.electricity.Power", <<0, 1>>, 8, 8,
    <<uavcan_si_unit_electric_current_Scalar_1_0,
      uavcan_si_unit_voltage_Scalar_1_0>>)

\* timestamp, value
reg_udral_physics_electricity_PowerTs_0_1 ==
  Struct("reg.udral.physics.electricity.PowerTs", <<0, 1>>, 15, 15,
    <<uavcan_time_SynchronizedTimestamp_1_0,
      reg_udral_physics_electricity_Power_0_1>>)

\* power, energy, full_energy
reg_udral_physics_electricity_Source_0_1 ==
  Struct("reg.udral.physics.electricity.Source", <<0, 1>>, 16, 16,
    <<reg_udral_physics_electricity_Power_0_1,
      uavcan_si_unit_energy_Scalar_1_0, uavcan_si_unit_energy_Scalar_1_0>>)

\* timestamp, value
reg_udral_physics_electricity_SourceTs_0_1 ==
  Struct("reg.udral.physics.electricity.SourceTs", <<0, 1>>, 23, 23,
    <<uavcan_time_SynchronizedTimestamp_1_0,
      reg_udral_physics_electricity_Source_0_1>>)

\* value
reg_udral_physics_kinematics_cartesian_Point_0_1 ==
  Struct("reg.udral.physics.kinematics.cartesian.Point", <<0, 1>>, 24, 24,
    <<uavcan_si_unit_length_WideVector3_1_0>>)

\* position, velocity
reg_udral_physics_kinematics_cartesian_PointState_0_1 ==
  Struct("reg.udral.physics.kinematics.cartesian.PointState", <<0, 1>>, 36, 36,
    <<reg_udral_physics_kinematics_cartesian_Point_0_1,
      uavcan_si_unit_velocity_Vector3_1_0>>)

\* value, covariance_urt
reg_udral_physics_kinematics_cartesian_PointVar_0_1 ==
  Struct("reg.udral.physics.kinematics.cartesian.PointVar", <<0, 1>>, 36, 36,
    <<reg_udral_physics_kinematics_cartesian_Point_0_1,
      Fixed(6, Float(16))>>)

\* position, orientation
reg_udral_physics_kinematics_cartesian_Pose_0_1 ==
  Struct("reg.udral.physics.kinematics.cartesian.Pose", <<0, 1>>, 40, 40,
    <<reg_udral_physics_kinematics_cartesian_Point_0_1,
      uavcan_si_unit_angle_Quaternion_1_0>>)

\* value, covariance_urt
reg_udral_physics_kinematics_cartesian_PoseVar_0_1 ==
  Struct("reg.udral.physics.kinematics.cartesian.PoseVar", <<0, 1>>, 82, 82,
    <<reg_udral_physics_kinematics_cartesian_Pose_0_1,
      Fixed(21, Float(16))>>)

\* timestamp, value
reg_udral_physics_kinematics_cartesian_PoseVarTs_0_1 ==
  Struct("reg.udral.physics.kinematics.cartesian.PoseVarTs", <<0, 1>>, 89, 89,
    <<uavcan_time_SynchronizedTimestamp_1_0,
      reg_udral_physics_kinematics_cartesian_PoseVar_0_1>>)

\* linear, angular
reg_udral_physics_kinematics_cartesian_Twist_0_1 ==
  Struct("reg.udral.physics.kinematics.cartesian.Twist", <<0, 1>>, 24, 24,
    <<uavcan_si_unit_velocity_Vector3_1_0,
      uavcan_si_unit_angular_velocity_Vector3_1_0>>)

\* pose, twist
reg_udral_physics_kinematics_cartesian_State_0_1 ==
  Struct("reg.udral.physics.kinematics.cartesian.State", <<0, 1>>, 64, 64,
    <<reg_udral_physics_kinematics_cartesian_Pose_0_1,
      reg_udral_physics_kinematics_cartesian_Twist_0_1>>)

\* value, covariance_urt
reg_udral_physics_kinematics_cartesian_TwistVar_0_1 ==
  Struct("reg.udral.physics.kinematics.cartesian.TwistVar", <<0, 1>>, 66, 66,
    <<reg_udral_physics_kinematics_cartesian_Twist_0_1,
      Fixed(21, Float(16))>>)

\* pose, twist
reg_udral_physics_kinematics_cartesian_StateVar_0_1 ==
  Struct("reg.udral.physics.kinematics.cartesian.StateVar", <<0, 1>>, 148, 148,
    <<reg_udral_physics_kinematics_cartesian_PoseVar_0_1,
      reg_udral_physics_kinematics_cartesian_TwistVar_0_1>>)

\* timestamp, value
reg_udral_physics_kinematics_cartesian_StateVarTs_0_1 ==
  Struct("reg.udral.physics.kinematics.cartesian.StateVarTs", <<0, 1>>, 155, 155,
    <<uavcan_time_SynchronizedTimestamp_1_0,
      reg_udral_physics_kinematics_cartesian_StateVar_0_1>>)

\* timestamp, value
reg_udral_physics_kinematics_cartesian_TwistVarTs_0_1 ==
  Struct("reg.udral.physics.kinematics.cartesian.TwistVarTs", <<0, 1>>, 73, 73,
    <<uavcan_time_SynchronizedTimestamp_1_0,
      reg_udral_physics_kinematics_cartesian_TwistVar_0_1>>)

\* latitude, longitude, altitude
reg_udral_physics_kinematics_geodetic_Point_0_1 ==
  Struct("reg.udral.physics.kinematics.geodetic.Point", <<0, 1>>, 24, 24,
    <<Float(64), Float(64), uavcan_si_unit_length_WideScalar_1_0>>)

\* position, velocity
reg_udral_physics_kinematics_geodetic_PointState_0_1 ==
  Struct("reg.udral.physics.kinematics.geodetic.PointState", <<0, 1>>, 36, 36,
    <<reg_udral_physics_kinematics_geodetic_Point_0_1,
      uavcan_si_unit_velocity_Vector3_1_0>>)

\* value, covariance_urt
reg_udral_physics_kinematics_geodetic_PointVar_0_1 ==
  Struct("reg.udral.physics.kinematics.geodetic.PointVar", <<0, 1>>, 36, 36,
    <<reg_udral_physics_kinematics_geodetic_Point_0_1,
      Fixed(6, Float(16))>>)

\* position, orientation
reg_udral_physics_kinematics_geodetic_Pose_0_1 ==
  Struct("reg.udral.physics.kinematics.geodetic.Pose", <<0, 1>>, 40, 40,
    <<reg_udral_physics_kinematics_geodetic_Point_0_1,
      uavcan_si_unit_angle_Quaternion_1_0>>)

\* value, covariance_urt
reg_udral_physics_kinematics_geodetic_PoseVar_0_1 ==
  Struct("reg.udral.physics.kinematics.geodetic.PoseVar", <<0, 1>>, 82, 82,
    <<reg_udral_physics_kinematics_geodetic_Pose_0_1,
      Fixed(21, Float(16))>>)

\* pose, twist
reg_udral_physics_kinematics_geodetic_StateVar_0_1 ==
  Struct("reg.udral.physics.kinematics.geodetic.StateVar", <<0, 1>>, 148, 148,
    <<reg_udral_physics_kinematics_geodetic_PoseVar_0_1,
      reg_udral_physics_kinematics_cartesian_TwistVar_0_1>>)

\* timestamp, value
reg_udral_physics_kinematics_geodetic_StateVarTs_0_1 ==
  Struct("reg.udral.physics.kinematics.geodetic.StateVarTs", <<0, 1>>, 155, 155,
    <<uavcan_time_SynchronizedTimestamp_1_0,
      reg_udral_physics_kinematics_geodetic_StateVar_0_1>>)

\* pose, twist
reg_udral_physics_kinematics_geodetic_State_0_1 ==
  Struct("reg.udral.physics.kinematics.geodetic.State", <<0, 1>>, 64, 64,
    <<reg_udral_physics_kinematics_geodetic_Pose_0_1,
      reg_udral_physics_kinematics_cartesian_Twist_0_1>>)

\* angular_position, angular_velocity, angular_acceleration
reg_udral_physics_kinematics_rotation_Planar_0_1 ==
  Struct("reg.udral.physics.kinematics.rotation.Planar", <<0, 1>>, 12, 12,
    <<uavcan_si_unit_angle_Scalar_1_0,
      uavcan_si_unit_angular_velocity_Scalar_1_0,
      uavcan_si_unit_angular_acceleration_Scalar_1_0>>)

\* kinematics, torque
reg_udral_physics_dynamics_rotation_Planar_0_1 ==
  Struct("reg.udral.physics.dynamics.rotation.Planar", <<0, 1>>, 16, 16,
    <<reg_udral_physics_kinematics_rotation_Planar_0_1,
      uavcan_si_unit_torque_Scalar_1_0>>)

\* timestamp, value
reg_udral_physics_dynamics_rotation_PlanarTs_0_1 ==
  Struct("reg.udral.physics.dynamics.rotation.PlanarTs", <<0, 1>>, 23, 23,
    <<uavcan_time_SynchronizedTimestamp_1_0,
      reg_udral_physics_dynamics_rotation_Planar_0_1>>)

\* timestamp, value
reg_udral_physics_kinematics_rotation_PlanarTs_0_1 ==
  Struct("reg.udral.physics.kinematics.rotation.PlanarTs", <<0, 1>>, 19, 19,
    <<uavcan_time_SynchronizedTimestamp_1_0,
      reg_udral_physics_kinematics_rotation_Planar_0_1>>)

\* position, velocity, acceleration
reg_udral_physics_kinematics_translation_Linear_0_1 ==
  Struct("reg.udral.physics.kinematics.translation.Linear", <<0, 1>>, 12, 12,
    <<uavcan_si_unit_length_Scalar_1_0, uavcan_si_unit_velocity_Scalar_1_0,
      uavcan_si_unit_acceleration_Scalar_1_0>>)

\* kinematics, force
reg_udral_physics_dynamics_translation_Linear_0_1 ==
  Struct("reg.udral.physics.dynamics.translation.Linear", <<0, 1>>, 16, 16,
    <<reg_udral_physics_kinematics_translation_Linear_0_1,
      uavcan_si_unit_force_Scalar_1_0>>)

\* timestamp, value
reg_udral_physics_dynamics_translation_LinearTs_0_1 ==
  Struct("reg.udral.physics.dynamics.translation.LinearTs", <<0, 1>>, 23, 23,
    <<uavcan_time_SynchronizedTimestamp_1_0,
      reg_udral_physics_dynamics_translation_Linear_0_1>>)

\* timestamp, value
reg_udral_physics_kinematics_translation_LinearTs_0_1 ==
  Struct("reg.udral.physics.kinematics.translation.LinearTs", <<0, 1>>, 19, 19,
    <<uavcan_time_SynchronizedTimestamp_1_0,
      reg_udral_physics_kinematics_translation_Linear_0_1>>)

\* value, position_error_variance, velocity_error_variance,
\*   acceleration_error_variance
reg_udral_physics_kinematics_translation_LinearVarTs_0_1 ==
  Struct("reg.udral.physics.kinematics.translation.LinearVarTs", <<0, 1>>, 25, 25,
    <<reg_udral_physics_kinematics_translation_LinearTs_0_1, Float(16),
      Float(16), Float(16)>>)

\* value, error_variance
reg_udral_physics_kinematics_translation_Velocity1VarTs_0_1 ==
  Struct("reg.udral.physics.kinematics.translation.Velocity1VarTs", <<0, 1>>, 13, 13,
    <<uavcan_si_sample_velocity_Scalar_1_0, Float(16)>>)

\* value, covariance_urt
reg_udral_physics_kinematics_translation_Velocity3Var_0_1 ==
  Struct("reg.udral.physics.kinematics.translation.Velocity3Var", <<0, 1>>, 31, 31,
    <<uavcan_si_sample_velocity_Vector3_1_0, Fixed(6, Float(16))>>)

\* value, covariance_urt
reg_udral_physics_kinematics_translation_Velocity3Var_0_2 ==
  Struct("reg.udral.physics.kinematics.translation.Velocity3Var", <<0, 2>>, 24, 24,
    <<uavcan_si_unit_velocity_Vector3_1_0, Fixed(6, Float(16))>>)

\* position, velocity
reg_udral_physics_kinematics_cartesian_PointStateVar_0_1 ==
  Struct("reg.udral.physics.kinematics.cartesian.PointStateVar", <<0, 1>>, 60, 60,
    <<reg_udral_physics_kinematics_cartesian_PointVar_0_1,
      reg_udral_physics_kinematics_translation_Velocity3Var_0_2>>)

\* timestamp, value
reg_udral_physics_kinematics_cartesian_PointStateVarTs_0_1 ==
  Struct("reg.udral.physics.kinematics.cartesian.PointStateVarTs", <<0, 1>>, 67, 67,
    <<uavcan_time_SynchronizedTimestamp_1_0,
      reg_udral_physics_kinematics_cartesian_PointStateVar_0_1>>)

\* position, velocity
reg_udral_physics_kinematics_geodetic_PointStateVar_0_1 ==
  Struct("reg.udral.physics.kinematics.geodetic.PointStateVar", <<0, 1>>, 60, 60,
    <<reg_udral_physics_kinematics_geodetic_PointVar_0_1,
      reg_udral_physics_kinematics_translation_Velocity3Var_0_2>>)

\* timestamp, value
reg_udral_physics_kinematics_geodetic_PointStateVarTs_0_1 ==
  Struct("reg.udral.physics.kinematics.geodetic.PointStateVarTs", <<0, 1>>, 67, 67,
    <<uavcan_time_SynchronizedTimestamp_1_0,
      reg_udral_physics_kinematics_geodetic_PointStateVar_0_1>>)

\* red, green, blue
reg_udral_physics_optics_HighColor_0_1 ==
  Struct("reg.udral.physics.optics.HighColor", <<0, 1>>, 2, 2,
    <<UInt(5), UInt(6), UInt(5)>>)

\* timestamp, pressure, temperature, covariance_urt
reg_udral_physics_thermodynamics_PressureTempVarTs_0_1 ==
  Struct("reg.udral.physics.thermodynamics.PressureTempVarTs", <<0, 1>>, 21, 21,
    <<uavcan_time_SynchronizedTimestamp_1_0,
      uavcan_si_unit_pressure_Scalar_1_0,
      uavcan_si_unit_temperature_Scalar_1_0, Fixed(3, Float(16))>>)

\* tai64n
reg_udral_physics_time_TAI64_0_1 ==
  Struct("reg.udral.physics.time.TAI64", <<0, 1>>, 8, 8, <<Signed(64)>>)

\* value, error_variance
reg_udral_physics_time_TAI64Var_0_1 ==
  Struct("reg.udral.physics.time.TAI64Var", <<0, 1>>, 12, 12,
    <<reg_udral_physics_time_TAI64_0_1, Float(32)>>)

\* timestamp, value
reg_udral_physics_time_TAI64VarTs_0_1 ==
  Struct("reg.udral.physics.time.TAI64VarTs", <<0, 1>>, 19, 19,
    <<uavcan_time_SynchronizedTimestamp_1_0,
      reg_udral_physics_time_TAI64Var_0_1>>)

-----------------------------------------------------------------------------

\* overload, voltage, motor_temperature, controller_temperature,
\*   velocity, mechanical, vibration, configuration, control_mode, void,
\*   other
reg_udral_service_actuator_common_FaultFlags_0_1 ==
  Struct("reg.udral.service.actuator.common.FaultFlags", <<0, 1>>, 2, 2,
    <<Bool, Bool, Bool, Bool, Bool, Bool, Bool, Bool, Bool, Void(6), Bool>>)

\* motor_temperature, controller_temperature, error_count, fault_flags
reg_udral_service_actuator_common_Status_0_1 ==
  Struct("reg.udral.service.actuator.common.Status", <<0, 1>>, 63, 14,
    <<uavcan_si_unit_temperature_Scalar_1_0,
      uavcan_si_unit_temperature_Scalar_1_0, UInt(32),
      reg_udral_service_actuator_common_FaultFlags_0_1>>)

reg_udral_service_actuator_common___0_1 ==
  Struct("reg.udral.service.actuator.common._", <<0, 1>>, 0, 0, <<>>)

\* value
reg_udral_service_actuator_common_sp_Scalar_0_1 ==
  Struct("reg.udral.service.actuator.common.sp.Scalar", <<0, 1>>, 512, 2,
    <<Float(16)>>)

\* value
reg_udral_service_actuator_common_sp_Vector2_0_1 ==
  Struct("reg.udral.service.actuator.common.sp.Vector2", <<0, 1>>, 512, 4,
    <<Fixed(2, Float(16))>>)

\* value
reg_udral_service_actuator_common_sp_Vector31_0_1 ==
  Struct("reg.udral.service.actuator.common.sp.Vector31", <<0, 1>>, 512, 62,
    <<Fixed(31, Float(16))>>)

\* value
reg_udral_service_actuator_common_sp_Vector3_0_1 ==
  Struct("reg.udral.service.actuator.common.sp.Vector3", <<0, 1>>, 512, 6,
    <<Fixed(3, Float(16))>>)

\* value
reg_udral_service_actuator_common_sp_Vector4_0_1 ==
  Struct("reg.udral.service.actuator.common.sp.Vector4", <<0, 1>>, 512, 8,
    <<Fixed(4, Float(16))>>)

\* value
reg_udral_service_actuator_common_sp_Vector6_0_1 ==
  Struct("reg.udral.service.actuator.common.sp.Vector6", <<0, 1>>, 512, 12,
    <<Fixed(6, Float(16))>>)

\* value
reg_udral_service_actuator_common_sp_Vector8_0_1 ==
  Struct("reg.udral.service.actuator.common.sp.Vector8", <<0, 1>>, 512, 16,
    <<Fixed(8, Float(16))>>)

reg_udral_service_actuator_common_sp___0_1 ==
  Struct("reg.udral.service.actuator.common.sp._", <<0, 1>>, 0, 0, <<>>)

reg_udral_service_actuator_esc___0_1 ==
  Struct("reg.udral.service.actuator.esc._", <<0, 1>>, 0, 0, <<>>)

reg_udral_service_actuator_servo___0_1 ==
  Struct("reg.udral.service.actuator.servo._", <<0, 1>>, 0, 0, <<>>)

\* value
reg_udral_service_battery_Error_0_1 ==
  Struct("reg.udral.service.battery.Error", <<0, 1>>, 1, 1, <<UInt(8)>>)

\* value
reg_udral_service_battery_Technology_0_1 ==
  Struct("reg.udral.service.battery.Technology", <<0, 1>>, 1, 1, <<UInt(8)>>)

\* unique_id, mass, design_capacity, design_cell_voltage_min_max,
\*   discharge_current, discharge_current_burst, charge_current,
\*   charge_current_fast, charge_termination_threshold, charge_voltage,
\*   cycle_count, void, series_cell_count, state_of_health_pct, void,
\*   technology, nominal_voltage, unix_manufacture_time, name
reg_udral_service_battery_Parameters_0_3 ==
  Struct("reg.udral.service.battery.Parameters", <<0, 3>>, 300, 128,
    <<UInt(64), uavcan_si_unit_mass_Scalar_1_0,
      uavcan_si_unit_electric_charge_Scalar_1_0,
      Fixed(2, uavcan_si_unit_voltage_Scalar_1_0),
      uavcan_si_unit_electric_current_Scalar_1_0,
      uavcan_si_unit_electric_current_Scalar_1_0,
      uavcan_si_unit_electric_current_Scalar_1_0,
      uavcan_si_unit_electric_current_Scalar_1_0,
      uavcan_si_unit_electric_current_Scalar_1_0,
      uavcan_si_unit_voltage_Scalar_1_0, UInt(16), Void(8), UInt(8),
      UInt(7), Void(1), reg_udral_service_battery_Technology_0_1,
      uavcan_si_unit_voltage_Scalar_1_0, Truncated(40), UpTo(64, UInt(8))>>)

reg_udral_service_battery___0_1 ==
  Struct("reg.udral.service.battery._", <<0, 1>>, 0, 0, <<>>)

\* value
reg_udral_service_common_Readiness_0_1 ==
  Struct("reg.udral.service.common.Readiness", <<0, 1>>, 1, 1,
    <<Truncated(2)>>)

\* readiness, health
reg_udral_service_common_Heartbeat_0_1 ==
  Struct("reg.udral.service.common.Heartbeat", <<0, 1>>, 2, 2,
    <<reg_udral_service_common_Readiness_0_1, uavcan_node_Health_1_0>>)

\* heartbeat, demand_factor_pct
reg_udral_service_actuator_common_Feedback_0_1 ==
  Struct("reg.udral.service.actuator.common.Feedback", <<0, 1>>, 63, 3,
    <<reg_udral_service_common_Heartbeat_0_1, Signed(8)>>)

\* heartbeat, temperature_min_max, available_charge, error,
\*   cell_voltages
reg_udral_service_battery_Status_0_2 ==
  Struct("reg.udral.service.battery.Status", <<0, 2>>, 600, 526,
    <<reg_udral_service_common_Heartbeat_0_1,
      Fixed(2, uavcan_si_unit_temperature_Scalar_1_0),
      uavcan_si_unit_electric_charge_Scalar_1_0,
      reg_udral_service_battery_Error_0_1, UpTo(255, Float(16))>>)

\* data_validity_period, error_count, sensor_temperature
reg_udral_service_sensor_Status_0_1 ==
  Struct("reg.udral.service.sensor.Status", <<0, 1>>, 63, 12,
    <<uavcan_si_unit_duration_Scalar_1_0, UInt(32),
      uavcan_si_unit_temperature_Scalar_1_0>>)

-----------------------------------------------------------------------------
(* all of them *)
DsdlRegTypes ==
  <<reg_udral_physics_acoustics_Note_0_1,
    reg_udral_physics_electricity_Power_0_1,
    reg_udral_physics_electricity_PowerTs_0_1,
    reg_udral_physics_electricity_Source_0_1,
    reg_udral_physics_electricity_SourceTs_0_1,
    reg_udral_physics_kinematics_cartesian_Point_0_1,
    reg_udral_physics_kinematics_cartesian_PointState_0_1,
    reg_udral_physics_kinematics_cartesian_PointVar_0_1,
    reg_udral_physics_kinematics_cartesian_Pose_0_1,
    reg_udral_physics_kinematics_cartesian_PoseVar_0_1,
    reg_udral_physics_kinematics_cartesian_PoseVarTs_0_1,
    reg_udral_physics_kinematics_cartesian_Twist_0_1,
    reg_udral_physics_kinematics_cartesian_State_0_1,
    reg_udral_physics_kinematics_cartesian_TwistVar_0_1,
    reg_udral_physics_kinematics_cartesian_StateVar_0_1,
    reg_udral_physics_kinematics_cartesian_StateVarTs_0_1,
    reg_udral_physics_kinematics_cartesian_TwistVarTs_0_1,
    reg_udral_physics_kinematics_geodetic_Point_0_1,
    reg_udral_physics_kinematics_geodetic_PointState_0_1,
    reg_udral_physics_kinematics_geodetic_PointVar_0_1,
    reg_udral_physics_kinematics_geodetic_Pose_0_1,
    reg_udral_physics_kinematics_geodetic_PoseVar_0_1,
    reg_udral_physics_kinematics_geodetic_StateVar_0_1,
    reg_udral_physics_kinematics_geodetic_StateVarTs_0_1,
    reg_udral_physics_kinematics_geodetic_State_0_1,
    reg_udral_physics_kinematics_rotation_Planar_0_1,
    reg_udral_physics_dynamics_rotation_Planar_0_1,
    reg_udral_physics_dynamics_rotation_PlanarTs_0_1,
    reg_udral_physics_kinematics_rotation_PlanarTs_0_1,
    reg_udral_physics_kinematics_translation_Linear_0_1,
    reg_udral_physics_dynamics_translation_Linear_0_1,
    reg_udral_physics_dynamics_translation_LinearTs_0_1,
    reg_udral_physics_kinematics_translation_LinearTs_0_1,
    reg_udral_physics_kinematics_translation_LinearVarTs_0_1,
    reg_udral_physics_kinematics_translation_Velocity1VarTs_0_1,
    reg_udral_physics_kinematics_translation_Velocity3Var_0_1,
    reg_udral_physics_kinematics_translation_Velocity3Var_0_2,
    reg_udral_physics_kinematics_cartesian_PointStateVar_0_1,
    reg_udral_physics_kinematics_cartesian_PointStateVarTs_0_1,
    reg_udral_physics_kinematics_geodetic_PointStateVar_0_1,
    reg_udral_physics_kinematics_geodetic_PointStateVarTs_0_1,
    reg_udral_physics_optics_HighColor_0_1,
    reg_udral_physics_thermodynamics_PressureTempVarTs_0_1,
    reg_udral_physics_time_TAI64_0_1, reg_udral_physics_time_TAI64Var_0_1,
    reg_udral_physics_time_TAI64VarTs_0_1,
    reg_udral_service_actuator_common_FaultFlags_0_1,
    reg_udral_service_actuator_common_Status_0_1,
    reg_udral_service_actuator_common___0_1,
    reg_udral_service_actuator_common_sp_Scalar_0_1,
    reg_udral_service_actuator_common_sp_Vector2_0_1,
    reg_udral_service_actuator_common_sp_Vector31_0_1,
    reg_udral_service_actuator_common_sp_Vector3_0_1,
    reg_udral_service_actuator_common_sp_Vector4_0_1,
    reg_udral_service_actuator_common_sp_Vector6_0_1,
    reg_udral_service_actuator_common_sp_Vector8_0_1,
    reg_udral_service_actuator_common_sp___0_1,
    reg_udral_service_actuator_esc___0_1,
    reg_udral_service_actuator_servo___0_1,
    reg_udral_service_battery_Error_0_1,
    reg_udral_service_battery_Technology_0_1,
    reg_udral_service_battery_Parameters_0_3,
    reg_udral_service_battery___0_1, reg_udral_service_common_Readiness_0_1,
    reg_udral_service_common_Heartbeat_0_1,
    reg_udral_service_actuator_common_Feedback_0_1,
    reg_udral_service_battery_Status_0_2,
    reg_udral_service_sensor_Status_0_1>>

=============================================================================
